---- MODULE Spec2Model ----
(***************************************************************************)
(* A model of the mycelia/jai client SDK: the status-polling loop          *)
(* (wait_setup) of its three session classes, the lifecycle operations     *)
(* that sequence remote requests (fit, setup, append), the batch upload,   *)
(* the HTTP bindings of jAI and read_image_folder.                         *)
(*   "task"  : jai/task/trainer.py   Trainer                               *)
(*   "setup" : jai/setup/trainer.py  Trainer                               *)
(*   "core"  : src/mycelia_core.py   jAI                                   *)
(***************************************************************************)
EXTENDS Integers, Sequences, FiniteSets, TLC

(* ------------------------------ bounds -------------------------------- *)
\* status() calls explored in one wait_setup call
MaxPolls == 3
\* largest CurrentStep / TotalSteps the remote reports
MaxStep == 2
\* largest frequency_seconds a caller passes
MaxFreq == 2

\* most rows of an uploaded table
MaxRows == 4
\* largest batch size
MaxBatch == 3
\* rows of a dataframe handed to a Trainer
MaxTrainRows == 2

(* ------------------------- program constants -------------------------- *)
end_message == "Task ended successfully."
error_message == "Something went wrong."
\* defaults of setup.Trainer.status(max_tries=5, patience=25)
max_tries == 5
patience == 25

Impls == {"task", "setup", "core"}

(* --------------------------- status records --------------------------- *)
\* A Description is a sequence of text fragments.  "Iteration: " (with its
\* trailing blank) is the separator get_numbers splits on, "Iteration:" the
\* fragment fnmatch looks for, " / " the separator of the two numbers.
IterTok == "Iteration: "
IterBare == "Iteration:"
SepTok == " / "

DescPlain == <<"Training has started.">>
DescIter(i, n) == <<"Training. ", IterTok, i, SepTok, n>>
DescBare == <<"Training. ", IterBare, "1", SepTok, "2">>

Descriptions == {DescPlain, DescIter("1", "2"), DescIter("2", "2"), DescBare}

Statuses == {"Running", end_message, error_message}

\* The records the remote is taken to answer with.  A running task comes
\* with every description and every pair of steps; the failure sentinel,
\* whose steps the loop never reads past the first record, with or without
\* an "Iteration:" fragment; the success status likewise, with every pair of
\* steps.
StatusRecords ==
    [Status : {"Running"}, Description : Descriptions,
     CurrentStep : 0..MaxStep, TotalSteps : 1..MaxStep]
    \cup [Status : {end_message}, Description : {DescPlain, DescIter("1", "2")},
          CurrentStep : 0..MaxStep, TotalSteps : 1..MaxStep]
    \cup [Status : {error_message}, Description : {DescPlain, DescIter("1", "2")},
          CurrentStep : {0}, TotalSteps : {1}]

NoStatus ==
    [Status |-> "", Description |-> <<>>, CurrentStep |-> 0, TotalSteps |-> 0]

\* What GET /status answers: a map from database names to status records.
\* kind "empty": the empty map; "other": a non-empty map without the
\* session's name; "own": a map holding rec under the session's name.
Responses ==
    {[kind |-> "empty", rec |-> NoStatus], [kind |-> "other", rec |-> NoStatus]}
    \cup {[kind |-> "own", rec |-> r] : r \in StatusRecords}

\* The answers explored for the polls of a wait_setup that fit, setup or
\* append calls: an empty map, a running task with and without an
\* "Iteration:" fragment, the success status and the failure sentinel.
NestedResponses ==
    {[kind |-> "empty", rec |-> NoStatus]}
    \cup {[kind |-> "own",
           rec |-> [Status |-> st, Description |-> d, CurrentStep |-> 0, TotalSteps |-> 1]] :
           st \in {"Running"}, d \in {DescPlain, DescIter("2", "2")}}
    \cup {[kind |-> "own",
           rec |-> [Status |-> st, Description |-> DescPlain, CurrentStep |-> 1, TotalSteps |-> 1]] :
           st \in {end_message, error_message}}

\* The value a status accessor hands to wait_setup: the whole map
\* (form "map") or the record of the session's name (form "record").
NoValue == [form |-> "none", kind |-> "empty", rec |-> NoStatus]
MapValue(resp) == [form |-> "map", kind |-> resp.kind, rec |-> resp.rec]
RecordValue(resp) == [form |-> "record", kind |-> "own", rec |-> resp.rec]

(* ----------------------------- get_numbers ---------------------------- *)
fnmatch(d) == \E k \in 1..Len(d) : d[k] \in {IterTok, IterBare}

RECURSIVE split(_, _)
split(s, sep) ==
    IF \A k \in 1..Len(s) : s[k] # sep
    THEN <<s>>
    ELSE LET k == CHOOSE k \in 1..Len(s) :
                      s[k] = sep /\ \A j \in 1..(k - 1) : s[j] # sep
         IN  <<SubSeq(s, 1, k - 1)>> \o split(SubSeq(s, k + 1, Len(s)), sep)

Digits == {"0", "1", "2", "3"}
int(t) == CASE t = "0" -> 0 [] t = "1" -> 1 [] t = "2" -> 2 [] OTHER -> 3
IsInt(piece) == Len(piece) = 1 /\ piece[1] \in Digits

Tuple(arity, a, b, c) == [exc |-> "none", arity |-> arity, a |-> a, b |-> b, c |-> c]
Raised(e) == [exc |-> e, arity |-> 0, a |-> FALSE, b |-> 0, c |-> 0]

\* The numbers of "Iteration: i / n" in a Description, or the exception
\* raised on the way.
ParseIteration(d) ==
    LET parts == split(d, IterTok) IN
    IF Len(parts) < 2 THEN Raised("IndexError")
    ELSE LET nums == split(parts[2], SepTok) IN
         IF Len(nums) # 2 THEN Raised("ValueError")
         ELSE IF ~IsInt(nums[1]) \/ ~IsInt(nums[2]) THEN Raised("ValueError")
         ELSE Tuple(2, FALSE, int(nums[1][1]), int(nums[2][1]))

\* task/trainer.py get_numbers: (True, i, n) or (False, 0, 0)
get_numbers(st) ==
    IF fnmatch(st.Description)
    THEN LET p == ParseIteration(st.Description) IN
         IF p.exc # "none" THEN p ELSE Tuple(3, TRUE, p.b, p.c)
    ELSE Tuple(3, FALSE, 0, 0)

\* setup/trainer.py wait_setup.get_numbers: (i, n) or (False, 0, 0)
get_numbers_setup(st) ==
    IF fnmatch(st.Description)
    THEN ParseIteration(st.Description)
    ELSE Tuple(3, FALSE, 0, 0)

\* `x, y, z = t`: a tuple of another length raises ValueError
Unpack3(t) == IF t.exc = "none" /\ t.arity # 3 THEN Raised("ValueError") ELSE t

GetNumbers(i, st) ==
    Unpack3(IF i = "setup" THEN get_numbers_setup(st) ELSE get_numbers(st))

(* ------------------------------- state -------------------------------- *)
VARIABLES
    impl,              \* which session class runs
    call,              \* the operation the caller invoked
    pc,                \* position inside the running operation
    frequency_seconds, \* the argument of the call
    status,            \* wait_setup's local `status`
    current, max_steps, step, is_init, sleep_time,   \* wait_setup's locals
    stall,             \* inner-loop passes since the iteration bar last moved
    iteration, max_iterations,
    pbar_n,            \* value shown by the main progress bar
    iteration_bar_n,   \* value shown by the iteration bar
    tries,             \* failed attempts of the running setup.Trainer.status()
    polls,             \* status() calls made by this wait_setup call
    slept,             \* length of the last time.sleep of the call
    reqs,              \* requests issued to the remote by this call, in order
    outcome,           \* "running", "returned" or the exception raised
    returned,          \* the value returned
    excArg,            \* the argument of the exception raised
    interrupt,         \* where a KeyboardInterrupt was delivered ("no": none)
    failPolled,        \* a status request has answered the failure sentinel
    failDesc,          \* ... and this was its Description
    polledAfterFail,   \* a status request was issued after that
    endPolled,         \* a status request has answered the success status
    lastPolled,        \* the record of the last answer to a status request
    name,              \* the session's database name
    dbs,               \* the remote: the type of each collection, or "absent"
    type_cache,        \* setup.Trainer._type
    setup_params,      \* _setup_params: "None", or the kind of parameters set
    insert_params_set, \* setup.Trainer: whether _insert_params was assigned
    overwrite,         \* the argument of fit / setup
    data,              \* the data argument: the tables to upload
    batch_size,        \* rows per insert request
    todo,              \* tables still to upload
    b,                 \* offset of the next batch in the table being uploaded
    insert_responses,  \* the answer kept for each batch
    exists_ret,        \* what the last is_valid() / exists() returned
    base_api_url,      \* jAI.base_api_url, as a sequence of characters
    header,            \* jAI.header: a map from one header key to the auth key
    http,              \* HTTP requests issued by the running jAI call, in order
    response,          \* the HTTP response the running jAI call has received
    remote,            \* "accepting": the remote answers every request with
                       \* its success code; "any": with any code and body
    lifecycle,         \* for each name, what the session last did to it:
                       \* "set up", "deleted", or "unknown"
    url, auth_key,     \* the arguments jAI was constructed with
    arg,               \* further arguments of the running jAI call
    image_folder,      \* read_image_folder: the files of the folder, in the
                       \* order iterdir() yields them
    loop_files,        \* the files the loop has not reached yet
    handle_errors,     \* the handle_errors argument
    id_pattern,        \* whether an id_pattern was given
    seen,              \* how many files the loop has taken from loop_files
    encoded_images,    \* the rows collected
    corrupted_files,   \* the files that could not be read
    ignored_files,     \* the files with another extension
    image,             \* encode_image's argument: a PIL image
    encoded_string,    \* what encode_image returned
    decoded,           \* what decode_image returned
    results            \* jAI.similar: the similarity entries collected

vars == <<impl, call, pc, frequency_seconds, status, current, max_steps, step,
          is_init, sleep_time, stall, iteration, max_iterations, pbar_n,
          iteration_bar_n, tries, polls, slept, reqs, outcome, returned,
          excArg, interrupt, failPolled, failDesc, polledAfterFail, endPolled,
          lastPolled, name, dbs, type_cache, setup_params, insert_params_set,
          overwrite, data, batch_size, todo, b, insert_responses, exists_ret,
          base_api_url, header, http, response, remote, lifecycle,
          url, auth_key, arg, image_folder, loop_files, handle_errors,
          id_pattern, seen, encoded_images, corrupted_files, ignored_files,
          image, encoded_string, decoded, results>>

locals == <<current, max_steps, step, is_init, sleep_time, stall, iteration,
            max_iterations, pbar_n, iteration_bar_n>>
ghost == <<failPolled, failDesc, polledAfterFail, endPolled, lastPolled>>
session == <<name, type_cache, setup_params, insert_params_set>>
upload == <<data, batch_size, todo, b, insert_responses>>
conn == <<base_api_url, header, url, auth_key>>
reading == <<image_folder, loop_files, handle_errors, id_pattern, seen,
             encoded_images, corrupted_files, ignored_files>>
codec == <<image, encoded_string, decoded>>
core == <<conn, reading, codec, results, http, response, remote, lifecycle, arg>>
args == <<impl, call, frequency_seconds, overwrite, session, dbs, upload,
          exists_ret, core>>

\* A request of the log: the operation, the collection it names and, for
\* an insert, the rows it carries.
Req(op, nm) == [op |-> op, name |-> nm, rows |-> <<>>]
Insert(nm, rows) == [op |-> "insert", name |-> nm, rows |-> rows]
Count(s, op) == Cardinality({k \in 1..Len(s) : s[k].op = op})
Ops(s) == [k \in 1..Len(s) |-> s[k].op]
Last(s) == s[Len(s)]

(* --------------------------- jAI's connection ------------------------- *)
\* The url argument of jAI(auth_key, url): None, or a string of characters.
NoUrl == [given |-> FALSE, chars |-> <<>>]
Url(chars) == [given |-> TRUE, chars |-> chars]
Urls == {NoUrl, Url(<<"h">>), Url(<<"h", "/">>), Url(<<"h", "/", "/">>)}
AuthKeys == {"key1", "key2"}

\* 'https://mycelia.azure-api.net'
default_url == <<"m">>

\* url.endswith('/')
endswith(chars, c) == Len(chars) > 0 /\ chars[Len(chars)] = c

\* jAI.__init__: the base URL and the one-key header of the session
InitBaseUrl(u) ==
    IF ~u.given THEN default_url
    ELSE IF endswith(u.chars, "/") THEN SubSeq(u.chars, 1, Len(u.chars) - 1)
    ELSE u.chars
\* (mutant of InitHeader: the key is 'Auth' whatever the url)
InitHeader_auth_only(u, key) == [k \in {"Auth"} |-> key]

InitHeader(u, key) ==
    IF ~u.given THEN [k \in {"Auth"} |-> key]
    ELSE [k \in {"company-key"} |-> key]

\* An HTTP request as handed to `requests`: verb, url and headers.
HttpReq(verb, path) ==
    [verb |-> verb, url |-> base_api_url \o path, headers |-> header]

\* A call without further arguments.
NoArg == [method |-> "", id_item |-> ""]

\* An HTTP response: its status code and whether its body parses as JSON.
NoResponse == [code |-> 0, body |-> "none"]

\* What the remote may answer to a request whose success code is
\* `success`: an accepting remote that code with a JSON body; any other
\* remote also an error code, and a body that is not JSON.
Codes == {200, 201, 202, 500}
HttpResponses(success) ==
    IF remote = "accepting" THEN {[code |-> success, body |-> "json"]}
    ELSE [code : Codes, body : {"json", "text"}]

\* response.json(): raises when the body is not JSON
json_raises(resp) == resp.body # "json"

\* A session built with the defaults.
\* no image was handed to the codec
NoImage == [mode |-> "none", size |-> <<0, 0>>, data |-> <<>>]
InitCodec == image = NoImage /\ encoded_string = <<>> /\ decoded = NoImage

NoFolder ==
    /\ image_folder = <<>> /\ loop_files = <<>>
    /\ handle_errors = "ignore" /\ id_pattern = FALSE
    /\ seen = 0
    /\ encoded_images = <<>> /\ corrupted_files = <<>> /\ ignored_files = <<>>

InitConn ==
    /\ url = NoUrl /\ auth_key = "key1"
    /\ base_api_url = InitBaseUrl(NoUrl)
    /\ header = InitHeader(NoUrl, "key1")
    /\ remote = "any"
    /\ lifecycle = [n \in {"a", "b"} |-> "unknown"]

\* The status call sites of wait_setup, and where each returns to.
Sites == {"init", "inner", "outer"}
After(site) ==
    CASE site = "init" -> "init_ret"
      [] site = "inner" -> "inner_ret"
      [] OTHER -> "outer_ret"

WaitPcs == {"begin", "init", "init_ret", "outer_test", "inner_body", "inner",
            "inner_ret", "outer", "outer_ret", "after_try"}

\* Positions lexically inside wait_setup's try block (task 496-544,
\* setup 392-436).
InTry(p) == p \in {"outer_test", "inner_body", "inner", "inner_ret",
                   "outer", "outer_ret"}

\* The operation the caller invoked ends: it returns r, or raises o(e).
Finish(o, r, e) ==
    /\ pc' = "done"
    /\ outcome' = o
    /\ returned' = r
    /\ excArg' = e

\* wait_setup returns r: to the caller, or to the operation that called it.
WaitReturn(r) ==
    IF call = "wait_setup"
    THEN Finish("returned", r, <<>>)
    ELSE /\ pc' = "after_wait"
         /\ returned' = r
         /\ UNCHANGED <<outcome, excArg>>

\* An exception e raised at position p of task/setup wait_setup: a
\* KeyboardInterrupt inside the try block is caught, the remote cancel
\* request issued and KeyboardInterrupt raised again; anything else
\* propagates.
Propagate(p, e, earg, sent) ==
    IF e = "KeyboardInterrupt" /\ InTry(p) /\ impl # "core"
    THEN /\ reqs' = reqs \o sent \o <<Req("cancel", name)>>
         /\ Finish("KeyboardInterrupt", NoValue, earg)
    ELSE /\ reqs' = reqs \o sent
         /\ Finish(e, NoValue, earg)

\* Bookkeeping of what the remote answered.
Observe(resp) ==
    /\ failPolled' = (failPolled \/ (resp.kind = "own" /\ resp.rec.Status = error_message))
    /\ failDesc' = IF ~failPolled /\ resp.kind = "own" /\ resp.rec.Status = error_message
                   THEN resp.rec.Description ELSE failDesc
    /\ polledAfterFail' = (polledAfterFail \/ failPolled)
    /\ endPolled' = (endPolled \/ (resp.kind = "own" /\ resp.rec.Status = end_message))
    /\ lastPolled' = resp.rec


NoInterrupt == [at |-> "no", sent |-> FALSE]
Interrupted(p, sent) == [at |-> p, sent |-> sent]

\* A request was issued and no answer read.
ObserveNone ==
    /\ polledAfterFail' = (polledAfterFail \/ failPolled)
    /\ UNCHANGED <<failPolled, failDesc, endPolled, lastPolled>>

\* The exceptions a request in progress can end with: a transport error,
\* or the caller's interruption (at most one per call).  They are explored
\* for a wait_setup the caller invokes itself; inside fit, setup and append
\* every request is answered.
Failures ==
    IF call # "wait_setup" THEN {}
    ELSE {"RequestError"} \cup (IF interrupt.at = "no" THEN {"KeyboardInterrupt"} ELSE {})
Deliver(p, e, sent) ==
    interrupt' = IF e = "KeyboardInterrupt" THEN Interrupted(p, sent) ELSE interrupt

\* What the remote may answer to a status request of the running call.
Answers == IF call = "wait_setup" THEN Responses ELSE NestedResponses

(* ------------------------- the status accessors ----------------------- *)
\* task.Trainer.status: self._status()[self.name]
task_status ==
    /\ impl = "task" /\ pc \in Sites /\ polls < MaxPolls
    /\ polls' = polls + 1
    /\ \/ \E resp \in Answers :
            /\ Observe(resp)
            /\ IF resp.kind = "own"
               THEN /\ status' = RecordValue(resp)
                    /\ pc' = After(pc)
                    /\ reqs' = reqs \o <<Req("status", name)>>
                    /\ UNCHANGED <<outcome, returned, excArg>>
               ELSE /\ Propagate(pc, "KeyError", <<>>, <<Req("status", name)>>)
                    /\ UNCHANGED status
            /\ UNCHANGED interrupt
       \/ \E e \in Failures :
            /\ ObserveNone
            /\ Propagate(pc, e, <<>>, <<Req("status", name)>>)
            /\ Deliver(pc, e, TRUE)
            /\ UNCHANGED status
    /\ UNCHANGED <<args, locals, tries, slept>>

\* (mutant of setup_status_try: the loop runs max_tries + 1 times)
setup_status_try_once_more ==
    /\ impl = "setup" /\ pc \in Sites /\ polls < MaxPolls /\ tries <= max_tries
    /\ reqs' = reqs \o <<Req("status", name)>>
    /\ \/ \E resp \in Answers :
            /\ Observe(resp)
            /\ status' = MapValue(resp)
            /\ pc' = After(pc)
            /\ tries' = 0
            /\ polls' = polls + 1
            /\ UNCHANGED <<slept, interrupt>>
       \/ \E e \in Failures :
            /\ ObserveNone
            /\ slept' = patience \div max_tries
            /\ tries' = tries + 1
            /\ Deliver(pc, e, TRUE)
            /\ UNCHANGED <<status, pc, polls>>
    /\ UNCHANGED <<args, locals, outcome, returned, excArg>>

\* setup.Trainer.status, one pass of `for _ in range(max_tries)`: the
\* answer is returned as it is, and every exception of the request,
\* KeyboardInterrupt included, is swallowed and followed by a sleep.
setup_status_try ==
    /\ impl = "setup" /\ pc \in Sites /\ polls < MaxPolls /\ tries < max_tries
    /\ reqs' = reqs \o <<Req("status", name)>>
    /\ \/ \E resp \in Answers :
            /\ Observe(resp)
            /\ status' = MapValue(resp)
            /\ pc' = After(pc)
            /\ tries' = 0
            /\ polls' = polls + 1
            /\ UNCHANGED <<slept, interrupt>>
       \/ \E e \in Failures :
            /\ ObserveNone
            /\ slept' = patience \div max_tries
            /\ tries' = tries + 1
            /\ Deliver(pc, e, TRUE)
            /\ UNCHANGED <<status, pc, polls>>
    /\ UNCHANGED <<args, locals, outcome, returned, excArg>>

\* setup.Trainer.status after max_tries failures: one more request, whose
\* exception propagates and whose answer is indexed by the session's name.
setup_status_last ==
    /\ impl = "setup" /\ pc \in Sites /\ polls < MaxPolls /\ tries = max_tries
    /\ polls' = polls + 1
    /\ tries' = 0
    /\ \/ \E resp \in Answers :
            /\ Observe(resp)
            /\ IF resp.kind = "own"
               THEN /\ status' = RecordValue(resp)
                    /\ pc' = After(pc)
                    /\ reqs' = reqs \o <<Req("status", name)>>
                    /\ UNCHANGED <<outcome, returned, excArg>>
               ELSE /\ Propagate(pc, "KeyError", <<>>, <<Req("status", name)>>)
                    /\ UNCHANGED status
            /\ UNCHANGED interrupt
       \/ \E e \in Failures :
            /\ ObserveNone
            /\ Propagate(pc, e, <<>>, <<Req("status", name)>>)
            /\ Deliver(pc, e, TRUE)
            /\ UNCHANGED status
    /\ UNCHANGED <<args, locals, slept>>

\* jAI.status: the whole map of GET /status
jAI_status ==
    /\ impl = "core" /\ pc \in Sites /\ polls < MaxPolls
    /\ polls' = polls + 1
    /\ \/ \E resp \in Answers :
            /\ Observe(resp)
            /\ status' = MapValue(resp)
            /\ pc' = After(pc)
            /\ reqs' = reqs \o <<Req("status", name)>>
            /\ UNCHANGED <<outcome, returned, excArg, interrupt>>
       \/ \E e \in Failures :
            /\ ObserveNone
            /\ Propagate(pc, e, <<>>, <<Req("status", name)>>)
            /\ Deliver(pc, e, TRUE)
            /\ UNCHANGED status
    /\ UNCHANGED <<args, locals, tries, slept>>

(* ------------------ wait_setup of task.Trainer / setup.Trainer -------- *)
\* setup.Trainer.wait_setup starts with `if frequency_seconds <= 1: return`;
\* task.Trainer.wait_setup and jAI.wait_setup have no such test.
wait_setup_begin ==
    /\ pc = "begin"
    /\ IF impl = "setup" /\ frequency_seconds <= 1
       THEN WaitReturn(NoValue)
       ELSE /\ pc' = "init"
            /\ UNCHANGED <<outcome, returned, excArg>>
    /\ UNCHANGED <<args, locals, status, tries, polls, slept, reqs, interrupt, ghost>>

\* current, max_steps = status["CurrentStep"], status["TotalSteps"]; ...
wait_setup_init ==
    /\ impl # "core" /\ pc = "init_ret"
    /\ IF status.form # "record"
       THEN /\ Finish("KeyError", NoValue, <<>>)
            /\ UNCHANGED locals
       ELSE /\ current' = status.rec.CurrentStep
            /\ max_steps' = status.rec.TotalSteps
            /\ step' = status.rec.CurrentStep
            /\ is_init' = TRUE
            /\ sleep_time' = frequency_seconds
            /\ stall' = 0
            /\ pbar_n' = 0
            /\ pc' = "outer_test"
            /\ UNCHANGED <<iteration, max_iterations, iteration_bar_n,
                           outcome, returned, excArg>>
    /\ UNCHANGED <<args, status, tries, polls, slept, reqs, interrupt, ghost>>

\* The end of an outer pass: the main bar is moved to the step read on the
\* previous pass, the step of this status is kept, and the loop sleeps.
OuterTail ==
    /\ IF step = current /\ is_init
       THEN /\ pbar_n' = pbar_n + current
            /\ current' = current
       ELSE /\ pbar_n' = pbar_n + (step - current)
            /\ current' = step
    /\ step' = status.rec.CurrentStep
    /\ slept' = frequency_seconds
    /\ pc' = "outer"

\* The fill of the main bar once the loop has ended.
FinalFill ==
    pbar_n' = IF current # max_steps /\ ~is_init THEN pbar_n + (max_steps - current)
              ELSE IF current # max_steps /\ is_init THEN pbar_n + max_steps
              ELSE pbar_n

\* The head of the outer loop: the test of the two terminal statuses, and
\* the search for an "Iteration:" fragment.
wait_setup_test ==
    /\ impl # "core" /\ pc = "outer_test"
    /\ IF status.form # "record"
       THEN /\ Finish("KeyError", NoValue, <<>>)
            /\ UNCHANGED <<locals, slept>>
       ELSE IF status.rec.Status = end_message
       THEN /\ FinalFill
            /\ pc' = "after_try"
            /\ UNCHANGED <<current, max_steps, step, is_init, sleep_time, stall,
                           iteration, max_iterations, iteration_bar_n, slept,
                           outcome, returned, excArg>>
       ELSE IF status.rec.Status = error_message
       THEN /\ Finish("BaseException", NoValue, status.rec.Description)
            /\ UNCHANGED <<locals, slept>>
       ELSE LET g == GetNumbers(impl, status.rec) IN
            IF g.exc # "none"
            THEN /\ Finish(g.exc, NoValue, <<>>)
                 /\ UNCHANGED <<locals, slept>>
            ELSE /\ iteration' = g.a
                 /\ max_iterations' = g.c
                 /\ UNCHANGED <<max_steps, is_init, sleep_time, stall, outcome, returned,
                              excArg>>
                 /\ IF g.a
                    THEN /\ iteration_bar_n' = 0
                         /\ pc' = "inner_body"
                         /\ UNCHANGED <<current, step, pbar_n, slept>>
                    ELSE /\ OuterTail
                         /\ UNCHANGED iteration_bar_n
    /\ UNCHANGED <<args, status, tries, polls, reqs, interrupt, ghost>>

\* (mutant of wait_setup_inner: the sleep does not grow while the bar
\* stands still)
wait_setup_inner_steady ==
    /\ impl # "core" /\ pc = "inner_body"
    /\ LET g == GetNumbers(impl, status.rec) IN
       IF g.exc # "none"
       THEN /\ Finish(g.exc, NoValue, <<>>)
            /\ UNCHANGED <<iteration, iteration_bar_n, sleep_time, stall, slept>>
       ELSE /\ iteration' = g.a
            /\ IF g.b - iteration_bar_n > 0
               THEN /\ iteration_bar_n' = iteration_bar_n + (g.b - iteration_bar_n)
                    /\ sleep_time' = frequency_seconds
                    /\ stall' = 0
               ELSE /\ iteration_bar_n' = iteration_bar_n
                    /\ sleep_time' = sleep_time
                    /\ stall' = stall + 1
            /\ slept' = sleep_time'
            /\ pc' = "inner"
            /\ UNCHANGED <<outcome, returned, excArg>>
    /\ UNCHANGED <<args, status, current, max_steps, step, is_init, max_iterations,
                   pbar_n, tries, polls, reqs, interrupt, ghost>>

\* One pass of the inner loop up to its status call.
wait_setup_inner ==
    /\ impl # "core" /\ pc = "inner_body"
    /\ LET g == GetNumbers(impl, status.rec) IN
       IF g.exc # "none"
       THEN /\ Finish(g.exc, NoValue, <<>>)
            /\ UNCHANGED <<iteration, iteration_bar_n, sleep_time, stall, slept>>
       ELSE /\ iteration' = g.a
            /\ IF g.b - iteration_bar_n > 0
               THEN /\ iteration_bar_n' = iteration_bar_n + (g.b - iteration_bar_n)
                    /\ sleep_time' = frequency_seconds
                    /\ stall' = 0
               ELSE /\ iteration_bar_n' = iteration_bar_n
                    /\ sleep_time' = sleep_time + frequency_seconds
                    /\ stall' = stall + 1
            /\ slept' = sleep_time'
            /\ pc' = "inner"
            /\ UNCHANGED <<outcome, returned, excArg>>
    /\ UNCHANGED <<args, status, current, max_steps, step, is_init, max_iterations,
                   pbar_n, tries, polls, reqs, interrupt, ghost>>

\* `while iteration:` after the inner status call; on exit the iteration
\* bar is filled and the outer pass ends.
wait_setup_inner_next ==
    /\ impl # "core" /\ pc = "inner_ret"
    /\ IF iteration
       THEN /\ pc' = "inner_body"
            /\ UNCHANGED <<current, step, pbar_n, iteration_bar_n, slept>>
       ELSE /\ iteration_bar_n' = iteration_bar_n + (max_iterations - iteration_bar_n)
            /\ OuterTail
    /\ UNCHANGED <<args, status, max_steps, is_init, sleep_time, stall, iteration,
                   max_iterations, tries, polls, reqs, outcome, returned, excArg,
                   interrupt, ghost>>

\* is_init = False, and back to the head of the outer loop
wait_setup_outer_next ==
    /\ impl # "core" /\ pc = "outer_ret"
    /\ is_init' = FALSE
    /\ pc' = "outer_test"
    /\ UNCHANGED <<args, status, current, max_steps, step, sleep_time, stall, iteration,
                   max_iterations, pbar_n, iteration_bar_n, tries, polls, slept,
                   reqs, outcome, returned, excArg, interrupt, ghost>>

\* (mutant of wait_setup_finish: the status is returned and its remote
\* record never deleted)
wait_setup_finish_keeps_status ==
    /\ impl # "core" /\ pc = "after_try"
    /\ WaitReturn(status)
    /\ UNCHANGED <<args, locals, status, tries, polls, slept, ghost, reqs, interrupt>>

\* After the try block: the status record is deleted on the remote and the
\* last status returned.
wait_setup_finish ==
    /\ impl # "core" /\ pc = "after_try"
    /\ \/ /\ reqs' = reqs \o <<Req("delete_status", name)>>
          /\ WaitReturn(status)
          /\ UNCHANGED interrupt
       \/ \E e \in Failures :
            /\ Propagate(pc, e, <<>>, <<Req("delete_status", name)>>)
            /\ Deliver(pc, e, TRUE)
    /\ UNCHANGED <<args, locals, status, tries, polls, slept, ghost>>

(* --------------------------- jAI.wait_setup --------------------------- *)
\* status = self.status; if len(status) > 0: status = status[name]
jAI_wait_setup_init ==
    /\ impl = "core" /\ pc = "init_ret"
    /\ IF status.kind = "empty"
       THEN /\ WaitReturn(NoValue)
            /\ UNCHANGED status
       ELSE IF status.kind = "other"
       THEN /\ Finish("KeyError", NoValue, <<>>)
            /\ UNCHANGED status
       ELSE /\ status' = [status EXCEPT !.form = "record"]
            /\ pc' = "outer_test"
            /\ UNCHANGED <<outcome, returned, excArg>>
    /\ UNCHANGED <<args, locals, tries, polls, slept, reqs, interrupt, ghost>>

\* while status['Status'] != 'Task ended successfully.': ...
jAI_wait_setup_test ==
    /\ impl = "core" /\ pc = "outer_test"
    /\ IF status.rec.Status = end_message
       THEN /\ WaitReturn(NoValue)
            /\ UNCHANGED slept
       ELSE IF status.rec.Status = error_message
       THEN /\ Finish("BaseException", NoValue, status.rec.Description)
            /\ UNCHANGED slept
       ELSE /\ slept' = frequency_seconds
            /\ pc' = "outer"
            /\ UNCHANGED <<outcome, returned, excArg>>
    /\ UNCHANGED <<args, locals, status, tries, polls, reqs, interrupt, ghost>>

\* status = self.status; if len(status) > 0: status = status[name] else: break
jAI_wait_setup_next ==
    /\ impl = "core" /\ pc = "outer_ret"
    /\ IF status.kind = "empty"
       THEN /\ WaitReturn(NoValue)
            /\ UNCHANGED status
       ELSE IF status.kind = "other"
       THEN /\ Finish("KeyError", NoValue, <<>>)
            /\ UNCHANGED status
       ELSE /\ status' = [status EXCEPT !.form = "record"]
            /\ pc' = "outer_test"
            /\ UNCHANGED <<outcome, returned, excArg>>
    /\ UNCHANGED <<args, locals, tries, polls, slept, reqs, interrupt, ghost>>

(* ------------------------- caller's interruption ---------------------- *)
\* KeyboardInterrupt delivered while no request is in progress (between
\* two statements, or during a time.sleep).
KeyboardInterrupt ==
    /\ call = "wait_setup"
    /\ pc \in WaitPcs /\ interrupt.at = "no"
    /\ Propagate(pc, "KeyboardInterrupt", <<>>, <<>>)
    /\ interrupt' = Interrupted(pc, FALSE)
    /\ UNCHANGED <<args, locals, status, tries, polls, slept, ghost>>

(* --------------------------- specification ---------------------------- *)
InitLocals ==
    /\ status = NoValue
    /\ current = 0 /\ max_steps = 0 /\ step = 0
    /\ is_init = TRUE /\ sleep_time = 0 /\ stall = 0
    /\ iteration = FALSE /\ max_iterations = 0
    /\ pbar_n = 0 /\ iteration_bar_n = 0
    /\ tries = 0 /\ polls = 0 /\ slept = 0
    /\ reqs = <<>>
    /\ outcome = "running" /\ returned = NoValue /\ excArg = <<>>
    /\ interrupt = NoInterrupt
    /\ failPolled = FALSE /\ failDesc = <<>>
    /\ polledAfterFail = FALSE /\ endPolled = FALSE
    /\ lastPolled = NoStatus
    /\ http = <<>>
    /\ response = NoResponse
    /\ arg = NoArg
    /\ results = <<>>

Names == {"a", "b"}
Types == {"SelfSupervised", "Text"}
NoData == <<>>
\* insert_responses before its first assignment
Unbound == <<"unbound">>

\* A session with nothing set and an empty remote.
InitSession ==
    /\ name = "a"
    /\ dbs = [n \in Names |-> "absent"]
    /\ type_cache = "None"
    /\ setup_params = "None"
    /\ insert_params_set = FALSE
    /\ overwrite = FALSE
    /\ data = NoData /\ batch_size = 1 /\ todo = <<>> /\ b = 0
    /\ insert_responses = <<>>
    /\ exists_ret = FALSE

InitWait ==
    /\ impl \in Impls
    /\ call = "wait_setup"
    /\ pc = "begin"
    /\ frequency_seconds \in 1..MaxFreq
    /\ InitLocals
    /\ InitSession
    /\ InitConn
    /\ NoFolder
    /\ InitCodec

NextWait ==
    \/ wait_setup_begin
    \/ task_status
    \/ setup_status_try
    \/ setup_status_last
    \/ jAI_status
    \/ wait_setup_init
    \/ wait_setup_test
    \/ wait_setup_inner
    \/ wait_setup_inner_next
    \/ wait_setup_outer_next
    \/ wait_setup_finish
    \/ jAI_wait_setup_init
    \/ jAI_wait_setup_test
    \/ jAI_wait_setup_next
    \/ KeyboardInterrupt

SpecWait == InitWait /\ [][NextWait]_vars


(* ------------------------------ jAI.setup ----------------------------- *)
Min(x, y) == IF x < y THEN x ELSE y

Rows(n) == [k \in 1..n |-> k]
Table(key, n) == [key |-> key, rows |-> Rows(n)]
Frame(n) == [kind |-> "frame", tables |-> <<Table("main", n)>>]

\* (mutant of BatchSlice: the slice ends one row early)
BatchSlice_short(rows, lo, size) == SubSeq(rows, lo + 1, Min(lo + size - 1, Len(rows)))

\* data[b:b+batch_size] (data.iloc[b:b+batch_size] for a dataframe)
BatchSlice(rows, lo, size) == SubSeq(rows, lo + 1, Min(lo + size, Len(rows)))

\* What an HTTP binding hands back (assert_status_code): the parsed body on
\* the operation's success code, the raw response object otherwise.
Answer(code, success) == IF code = success THEN "json" ELSE "response"

\* trange(0, len(data), batch_size): range() refuses a step of 0
jAI_setup_begin ==
    /\ call = "jAI.setup" /\ pc = "setup_begin"
    /\ insert_responses' = <<>>
    /\ b' = 0
    /\ IF batch_size = 0
       THEN Finish("ValueError", NoValue, <<>>)
       ELSE /\ pc' = "setup_loop"
            /\ UNCHANGED <<outcome, returned, excArg>>
    /\ UNCHANGED <<impl, call, frequency_seconds, overwrite, session, dbs, data,
                   batch_size, todo, exists_ret, core, locals, status, tries,
                   polls, slept, reqs, interrupt, ghost>>

\* One pass of the loop: the batch is posted (_insert_json), and its answer
\* kept whatever its status code; response.json(), called on the body of a
\* success and by assert_status_code on any other, raises on a body that is
\* not JSON.
jAI_setup_insert ==
    /\ call = "jAI.setup" /\ pc = "setup_loop"
    /\ b < Len(data.tables[1].rows)
    /\ reqs' = reqs \o <<Insert(name, BatchSlice(data.tables[1].rows, b, batch_size))>>
    /\ http' = Append(http, HttpReq("POST", <<"/data/", name>>))
    /\ \E resp \in HttpResponses(200) :
         /\ response' = resp
         /\ IF json_raises(resp)
            THEN /\ Finish("JSONDecodeError", NoValue, <<>>)
                 /\ UNCHANGED <<insert_responses, b>>
            ELSE /\ insert_responses' = Append(insert_responses, Answer(resp.code, 200))
                 /\ b' = b + batch_size
                 /\ UNCHANGED <<pc, outcome, returned, excArg>>
    /\ UNCHANGED <<impl, call, frequency_seconds, overwrite, session, dbs, data,
                   batch_size, todo, exists_ret, locals, status, tries,
                   polls, slept, interrupt, ghost, conn, reading, codec, results, remote, lifecycle, arg>>

\* After the loop: _setup_database posts the start of the training, and the
\* pair (insert_responses, setup_response) is returned.
jAI_setup_database ==
    /\ call = "jAI.setup" /\ pc = "setup_loop"
    /\ b >= Len(data.tables[1].rows)
    /\ reqs' = reqs \o <<Req("setup", name)>>
    /\ http' = Append(http, HttpReq("POST", <<"/setup/", name>>))
    /\ \E resp \in HttpResponses(201), db_type \in Types :
         /\ response' = resp
         /\ dbs' = IF resp.code = 201 THEN [dbs EXCEPT ![name] = db_type] ELSE dbs
         /\ lifecycle' = IF resp.code = 201 THEN [lifecycle EXCEPT ![name] = "set up"]
                         ELSE lifecycle
         /\ IF json_raises(resp)
            THEN Finish("JSONDecodeError", NoValue, <<>>)
            ELSE Finish("returned",
                        [form |-> "pair", inserts |-> insert_responses,
                         second |-> Answer(resp.code, 201)], <<>>)
    /\ UNCHANGED <<impl, call, frequency_seconds, overwrite, session, upload,
                   exists_ret, locals, status, tries, polls, slept,
                   interrupt, ghost, conn, reading, codec, results, remote, arg>>

InitCore ==
    /\ impl = "core"
    /\ call = "jAI.setup"
    /\ pc = "setup_begin"
    /\ frequency_seconds = 1
    /\ InitLocals
    /\ name \in Names
    /\ dbs \in [Names -> {"absent", "Text"}]
    /\ type_cache = "None"
    /\ setup_params = "None"
    /\ insert_params_set = FALSE
    /\ overwrite = FALSE
    /\ data \in {Frame(n) : n \in 0..MaxRows}
    /\ batch_size \in 0..MaxBatch
    /\ todo = <<>> /\ b = 0
    /\ insert_responses = <<>>
    /\ exists_ret = FALSE
    /\ InitConn
    /\ NoFolder
    /\ InitCodec

NextCore ==
    \/ jAI_setup_begin
    \/ jAI_setup_insert
    \/ jAI_setup_database

SpecCore == InitCore /\ [][NextCore]_vars

(* ---------------------------- the caller ------------------------------ *)
\* The frame of a finished call is discarded: its locals, its arguments
\* and the log of its requests are gone, the session and the remote stay.
Discard ==
    /\ pc = "done"
    /\ pc' = "idle" /\ call' = "none"
    /\ status' = NoValue
    /\ current' = 0 /\ max_steps' = 0 /\ step' = 0
    /\ is_init' = TRUE /\ sleep_time' = 0 /\ stall' = 0
    /\ iteration' = FALSE /\ max_iterations' = 0
    /\ pbar_n' = 0 /\ iteration_bar_n' = 0
    /\ tries' = 0 /\ polls' = 0 /\ slept' = 0
    /\ reqs' = <<>>
    /\ outcome' = "none" /\ returned' = NoValue /\ excArg' = <<>>
    /\ interrupt' = NoInterrupt
    /\ failPolled' = FALSE /\ failDesc' = <<>>
    /\ polledAfterFail' = FALSE /\ endPolled' = FALSE
    /\ lastPolled' = NoStatus
    /\ todo' = <<>> /\ b' = 0 /\ insert_responses' = Unbound
    /\ exists_ret' = FALSE
    /\ frequency_seconds' = 1 /\ overwrite' = FALSE /\ data' = Frame(0)
    /\ http' = <<>> /\ response' = NoResponse /\ arg' = NoArg
    /\ results' = <<>>
    /\ UNCHANGED <<impl, dbs, session, batch_size, conn, reading, codec, remote, lifecycle>>

\* What a starting call leaves as it is.
fresh == <<status, current, max_steps, step, is_init, sleep_time, stall, iteration,
           max_iterations, pbar_n, iteration_bar_n, tries, polls, slept,
           returned, excArg, interrupt, failPolled, failDesc, polledAfterFail,
           endPolled, lastPolled, todo, b, insert_responses>>

\* The caller invokes operation op, which starts at position p.
Begin(op, p) ==
    /\ pc = "idle"
    /\ call' = op /\ pc' = p
    /\ outcome' = "running"
    /\ UNCHANGED <<impl, dbs, reqs, exists_ret, fresh, core>>

\* The caller assigns an attribute of the session; the assignment issues
\* the requests sent and returns at once.
Setter(op, sent) ==
    /\ pc = "idle"
    /\ call' = op /\ pc' = "done"
    /\ reqs' = sent
    /\ outcome' = "returned"
    /\ UNCHANGED <<impl, dbs, fresh, core>>

\* What is left alone by a step of fit / append / setup that issues
\* requests and moves on.
waiting == <<status, locals, tries, polls, slept, interrupt, ghost>>
result == <<outcome, returned, excArg>>
given == <<impl, call, frequency_seconds, overwrite, data, batch_size, core>>

\* The values passed as data: a dataframe, a mapping of dataframes (the
\* key "main" stands for the session's name), or something else.
Mapping(keys) == [kind |-> "dict", tables |-> [k \in 1..Len(keys) |-> Table(keys[k], 1)]]
Other == [kind |-> "other", tables |-> <<>>]
Datas == {Frame(n) : n \in 0..MaxTrainRows}
         \cup {Mapping(<<>>), Mapping(<<"main">>), Mapping(<<"b", "main">>), Other}

Listed(nm) == dbs[nm] # "absent"
ReportTypes == {"SelfSupervised"}

(* ---------------------------- task.Trainer ---------------------------- *)
\* TaskBase.db_type: describe()["dtype"] if is_valid() else None, as the
\* requests it issues and the value it returns.
db_type_requests(nm) ==
    IF Listed(nm) THEN <<Req("is_valid", nm), Req("describe", nm)>>
    ELSE <<Req("is_valid", nm)>>
db_type_value(nm) == IF Listed(nm) THEN dbs[nm] ELSE "None"

\* trainer.set_params(db_type=...)
Trainer_set_params ==
    /\ impl = "task"
    /\ Setter("set_params", <<>>)
    /\ \E t \in Types : setup_params' = t
    /\ UNCHANGED exists_ret
    /\ UNCHANGED <<name, type_cache, insert_params_set, frequency_seconds,
                   overwrite, data, batch_size>>

\* trainer.insert_params = {"batch_size": ...}
Trainer_set_insert_params ==
    /\ impl = "task"
    /\ Setter("set_insert_params", <<>>)
    /\ batch_size' \in {1, MaxTrainRows}
    /\ UNCHANGED <<session, exists_ret, frequency_seconds, overwrite, data>>

\* trainer.name = value
Trainer_set_name ==
    /\ impl = "task"
    /\ Setter("set_name", <<>>)
    /\ \E n \in Names : name' = n
    /\ UNCHANGED exists_ret
    /\ UNCHANGED <<type_cache, setup_params, insert_params_set, frequency_seconds,
                   overwrite, data, batch_size>>

\* trainer.fit(data, overwrite=..., frequency_seconds=...)
Trainer_fit ==
    /\ impl = "task"
    /\ Begin("fit", "fit_begin")
    /\ data' \in Datas
    /\ overwrite' \in BOOLEAN
    /\ frequency_seconds' \in 0..MaxFreq
    /\ UNCHANGED <<session, batch_size>>

\* (mutant of fit_is_valid: an existing database is neither refused nor
\* deleted)
fit_is_valid_careless ==
    /\ call = "fit" /\ pc = "fit_begin"
    /\ reqs' = Append(reqs, Req("is_valid", name))
    /\ exists_ret' = Listed(name)
    /\ pc' = "fit_check"
    /\ UNCHANGED <<given, session, dbs, todo, b, insert_responses, waiting, result>>

\* if self.is_valid(): delete or raise KeyError
fit_is_valid ==
    /\ call = "fit" /\ pc = "fit_begin"
    /\ reqs' = Append(reqs, Req("is_valid", name))
    /\ exists_ret' = Listed(name)
    /\ IF Listed(name) /\ ~overwrite
       THEN Finish("KeyError", NoValue, <<"already exists">>)
       ELSE /\ pc' = IF Listed(name) THEN "fit_delete" ELSE "fit_check"
            /\ UNCHANGED result
    /\ UNCHANGED <<given, session, dbs, todo, b, insert_responses, waiting>>

\* self.delete_database()
fit_delete_database ==
    /\ call = "fit" /\ pc = "fit_delete"
    /\ reqs' = Append(reqs, Req("delete_database", name))
    /\ dbs' = [dbs EXCEPT ![name] = "absent"]
    /\ pc' = "fit_check"
    /\ UNCHANGED <<given, session, todo, b, insert_responses, exists_ret,
                   waiting, result>>

\* self.setup_params raises ValueError while no parameters were set; data
\* that is neither a dataframe nor a mapping raises ValueError.
fit_check ==
    /\ call = "fit" /\ pc = "fit_check"
    /\ IF setup_params = "None" \/ data.kind = "other"
       THEN /\ Finish("ValueError", NoValue, <<>>)
            /\ UNCHANGED todo
       ELSE /\ todo' = data.tables
            /\ pc' = "fit_table"
            /\ UNCHANGED result
    /\ UNCHANGED <<given, session, dbs, b, insert_responses, exists_ret, reqs,
                   waiting>>

\* The name a table is uploaded under.
TableName(t) == IF t.key = "main" THEN name ELSE t.key

\* (mutant of fit_delete_raw_data: the raw data deleted is always that of
\* the session's name)
fit_delete_raw_data_own_name ==
    /\ call = "fit" /\ pc = "fit_table" /\ todo # <<>>
    /\ reqs' = reqs \o db_type_requests(name)
                    \o <<Req("delete_raw_data", name)>>
    /\ b' = 0
    /\ insert_responses' = <<>>
    /\ pc' = "fit_insert"
    /\ UNCHANGED <<given, session, dbs, todo, exists_ret, waiting, result>>

\* Before a table's upload: db_type is read for check_dtype_and_clean, and
\* the raw data left under the table's name deleted.
fit_delete_raw_data ==
    /\ call = "fit" /\ pc = "fit_table" /\ todo # <<>>
    /\ reqs' = reqs \o db_type_requests(name)
                    \o <<Req("delete_raw_data", TableName(Head(todo)))>>
    /\ b' = 0
    /\ insert_responses' = <<>>
    /\ pc' = "fit_insert"
    /\ UNCHANGED <<given, session, dbs, todo, exists_ret, waiting, result>>

\* _insert_data: one insert request for each batch of the table
fit_insert ==
    /\ call = "fit" /\ pc = "fit_insert"
    /\ IF b < Len(Head(todo).rows)
       THEN /\ reqs' = Append(reqs, Insert(TableName(Head(todo)),
                                           BatchSlice(Head(todo).rows, b, batch_size)))
            /\ insert_responses' = Append(insert_responses, "json")
            /\ b' = b + batch_size
            /\ UNCHANGED <<todo, pc>>
       ELSE /\ todo' = Tail(todo)
            /\ pc' = "fit_table"
            /\ UNCHANGED <<reqs, insert_responses, b>>
    /\ UNCHANGED <<given, session, dbs, exists_ret, waiting, result>>

\* self._setup(...); then the pair is returned when frequency_seconds < 1
\* (insert_responses is unbound after an empty mapping), else wait_setup
\* is called.
fit_setup ==
    /\ call = "fit" /\ pc = "fit_table" /\ todo = <<>>
    /\ reqs' = Append(reqs, Req("setup", name))
    /\ dbs' = [dbs EXCEPT ![name] = setup_params]
    /\ IF frequency_seconds >= 1
       THEN /\ pc' = "begin"
            /\ UNCHANGED result
       ELSE IF insert_responses = Unbound
       THEN Finish("UnboundLocalError", NoValue, <<>>)
       ELSE Finish("returned", [form |-> "pair", inserts |-> insert_responses,
                                 second |-> "json"], <<>>)
    /\ UNCHANGED <<given, session, upload, exists_ret, waiting>>

\* self.report(self._verbose); return self.get_query()
fit_report ==
    /\ call = "fit" /\ pc = "after_wait"
    /\ reqs' = reqs \o db_type_requests(name)
                    \o (IF db_type_value(name) \in ReportTypes
                        THEN <<Req("report", name)>> ELSE <<>>)
    /\ Finish("returned", [form |-> "query"], <<>>)
    /\ UNCHANGED <<given, session, dbs, upload, exists_ret, waiting>>

\* trainer.append(data, frequency_seconds=...)
Trainer_append ==
    /\ impl = "task"
    /\ Begin("append", "append_begin")
    /\ data' \in {Frame(n) : n \in 0..MaxTrainRows}
    /\ frequency_seconds' \in 0..MaxFreq
    /\ UNCHANGED <<session, overwrite, batch_size>>

\* (mutant of append_is_valid: a missing database is not refused)
append_is_valid_careless ==
    /\ call = "append" /\ impl = "task" /\ pc = "append_begin"
    /\ reqs' = Append(reqs, Req("is_valid", name))
    /\ exists_ret' = Listed(name)
    /\ pc' = "append_delete"
    /\ UNCHANGED <<given, session, dbs, todo, b, insert_responses, waiting, result>>

\* if not self.is_valid(): raise KeyError
append_is_valid ==
    /\ call = "append" /\ impl = "task" /\ pc = "append_begin"
    /\ reqs' = Append(reqs, Req("is_valid", name))
    /\ exists_ret' = Listed(name)
    /\ IF ~Listed(name)
       THEN Finish("KeyError", NoValue, <<"does not exist">>)
       ELSE /\ pc' = "append_delete"
            /\ UNCHANGED result
    /\ UNCHANGED <<given, session, dbs, todo, b, insert_responses, waiting>>

\* self.delete_raw_data(); db_type is read for check_dtype_and_clean;
\* self._delete_raw_data(self.name); the arguments of _insert_data read
\* db_type and describe() once more.
append_delete_raw_data ==
    /\ call = "append" /\ impl = "task" /\ pc = "append_delete"
    /\ reqs' = reqs \o <<Req("delete_raw_data", name)>>
                    \o db_type_requests(name)
                    \o <<Req("delete_raw_data", name)>>
                    \o db_type_requests(name)
                    \o <<Req("describe", name)>>
    /\ todo' = data.tables
    /\ b' = 0
    /\ insert_responses' = <<>>
    /\ pc' = "append_insert"
    /\ UNCHANGED <<given, session, dbs, exists_ret, waiting, result>>

\* _insert_data: one insert request for each batch
append_insert ==
    /\ call = "append" /\ impl = "task" /\ pc = "append_insert"
    /\ b < Len(Head(todo).rows)
    /\ reqs' = Append(reqs, Insert(name, BatchSlice(Head(todo).rows, b, batch_size)))
    /\ insert_responses' = Append(insert_responses, "json")
    /\ b' = b + batch_size
    /\ UNCHANGED <<given, session, dbs, todo, pc, exists_ret, waiting, result>>

\* self._append(name=self.name); then wait_setup when frequency_seconds >= 1
append_patch ==
    /\ call = "append" /\ impl = "task" /\ pc = "append_insert"
    /\ b >= Len(Head(todo).rows)
    /\ reqs' = Append(reqs, Req("append", name))
    /\ IF frequency_seconds >= 1
       THEN /\ pc' = "begin"
            /\ UNCHANGED result
       ELSE Finish("returned", [form |-> "pair", inserts |-> insert_responses,
                                 second |-> "json"], <<>>)
    /\ UNCHANGED <<given, session, dbs, upload, exists_ret, waiting>>

\* return insert_responses, add_data_response
append_return ==
    /\ call = "append" /\ pc = "after_wait"
    /\ Finish("returned", [form |-> "pair", inserts |-> insert_responses,
                            second |-> "json"], <<>>)
    /\ UNCHANGED <<given, session, dbs, upload, exists_ret, waiting, reqs>>

\* trainer.delete_database(): the remote forgets the collection
Trainer_delete_database ==
    /\ impl = "task"
    /\ Begin("delete_database", "delete_begin")
    /\ UNCHANGED <<session, frequency_seconds, overwrite, data, batch_size>>

\* response = self._delete_database(self.name)
delete_database ==
    /\ call = "delete_database" /\ pc = "delete_begin"
    /\ reqs' = Append(reqs, Req("delete_database", name))
    /\ dbs' = [dbs EXCEPT ![name] = "absent"]
    /\ Finish("returned", [form |-> "json"], <<>>)
    /\ UNCHANGED <<given, session, todo, b, insert_responses, exists_ret, waiting>>

\* trainer.report(): self.db_type is read, and the report requested only
\* for the types that have one.
Trainer_report ==
    /\ impl = "task"
    /\ Setter("report", db_type_requests(name)
                        \o (IF db_type_value(name) \in ReportTypes
                            THEN <<Req("report", name)>> ELSE <<>>))
    /\ UNCHANGED <<session, exists_ret, frequency_seconds, overwrite, data, batch_size>>

(* ---------------------------- setup.Trainer --------------------------- *)
\* setup.Trainer.db_type: the remote info is fetched; self._type is
\* assigned only when the name is listed, and returned in every case.
info_type(nm) == IF Listed(nm) THEN dbs[nm] ELSE type_cache

\* setup.Trainer.exists
exists(t) == t = "None"

\* trainer.name = value: the setter calls self.exists()
setup_set_name ==
    /\ impl = "setup"
    /\ \E n \in Names :
         /\ name' = n
         /\ type_cache' = IF Listed(n) THEN dbs[n] ELSE type_cache
         /\ exists_ret' = exists(type_cache')
         /\ Setter("set_name", <<Req("info", n)>>)
    /\ UNCHANGED <<setup_params, insert_params_set, frequency_seconds, overwrite,
                   data, batch_size>>

\* trainer.set_params(db_type=...)
setup_set_params ==
    /\ impl = "setup"
    /\ Setter("set_params", <<>>)
    /\ \E t \in Types : setup_params' = t
    /\ UNCHANGED exists_ret
    /\ UNCHANGED <<name, type_cache, insert_params_set, frequency_seconds,
                   overwrite, data, batch_size>>

\* trainer.insert_params = {...}
setup_set_insert_params ==
    /\ impl = "setup"
    /\ Setter("set_insert_params", <<>>)
    /\ insert_params_set' = TRUE
    /\ batch_size' \in {1, MaxTrainRows}
    /\ UNCHANGED exists_ret
    /\ UNCHANGED <<name, type_cache, setup_params, frequency_seconds, overwrite, data>>

\* trainer.setup(data, overwrite=..., frequency_seconds=...)
setup_call ==
    /\ impl = "setup"
    /\ Begin("setup", "setup_exists")
    /\ data' \in {Frame(n) : n \in 0..MaxTrainRows}
    /\ overwrite' \in BOOLEAN
    /\ frequency_seconds' \in 0..MaxFreq
    /\ UNCHANGED <<session, batch_size>>

\* if self.exists(): delete or raise KeyError
setup_exists ==
    /\ impl = "setup" /\ call = "setup" /\ pc = "setup_exists"
    /\ reqs' = Append(reqs, Req("info", name))
    /\ type_cache' = info_type(name)
    /\ exists_ret' = exists(type_cache')
    /\ IF exists_ret' /\ ~overwrite
       THEN Finish("KeyError", NoValue, <<"already exists">>)
       ELSE /\ pc' = IF exists_ret' THEN "setup_delete" ELSE "setup_prepare"
            /\ UNCHANGED result
    /\ UNCHANGED <<given, name, setup_params, insert_params_set, dbs, todo, b,
                   insert_responses, waiting>>

\* self.delete_database()
setup_delete_database ==
    /\ impl = "setup" /\ call = "setup" /\ pc = "setup_delete"
    /\ reqs' = Append(reqs, Req("delete_database", name))
    /\ dbs' = [dbs EXCEPT ![name] = "absent"]
    /\ pc' = "setup_prepare"
    /\ UNCHANGED <<given, session, todo, b, insert_responses, exists_ret,
                   waiting, result>>

\* params = self.setup_params (ValueError while unset); db_type is read
\* for check_dtype_and_clean and for _insert_data's arguments;
\* self.insert_params raises AttributeError while never assigned.
setup_prepare ==
    /\ impl = "setup" /\ call \in {"setup", "append"} /\ pc = "setup_prepare"
    /\ IF call = "setup" /\ setup_params = "None"
       THEN /\ Finish("ValueError", NoValue, <<>>)
            /\ UNCHANGED <<reqs, type_cache, todo, insert_responses>>
       ELSE /\ reqs' = reqs \o (IF call = "append"
                                THEN <<Req("delete_raw_data", name)>> ELSE <<>>)
                            \o <<Req("info", name), Req("info", name)>>
            /\ type_cache' = info_type(name)
            /\ IF ~insert_params_set
               THEN /\ Finish("AttributeError", NoValue, <<>>)
                    /\ UNCHANGED <<todo, insert_responses>>
               ELSE /\ todo' = data.tables
                    /\ insert_responses' = <<>>
                    /\ pc' = "setup_insert"
                    /\ UNCHANGED result
    /\ UNCHANGED <<given, name, setup_params, insert_params_set, dbs, b,
                   exists_ret, waiting>>

\* _insert_data: one insert request for each batch
setup_insert ==
    /\ impl = "setup" /\ pc = "setup_insert"
    /\ b < Len(Head(todo).rows)
    /\ reqs' = Append(reqs, Insert(name, BatchSlice(Head(todo).rows, b, batch_size)))
    /\ insert_responses' = Append(insert_responses, "json")
    /\ b' = b + batch_size
    /\ UNCHANGED <<given, session, dbs, todo, pc, exists_ret, waiting, result>>

\* setup_response = self._setup(...); print_args(params,
\* setup_response['kwags']): KeyError unless the answer has that key;
\* then wait_setup and report when frequency_seconds >= 1.
setup_train ==
    /\ impl = "setup" /\ call = "setup" /\ pc = "setup_insert"
    /\ b >= Len(Head(todo).rows)
    /\ reqs' = Append(reqs, Req("setup", name))
    /\ dbs' = [dbs EXCEPT ![name] = setup_params]
    /\ \E kwags \in BOOLEAN :
         IF ~kwags
         THEN Finish("KeyError", NoValue, <<"kwags">>)
         ELSE IF frequency_seconds >= 1
         THEN /\ pc' = "begin"
              /\ UNCHANGED result
         ELSE Finish("returned", [form |-> "pair", inserts |-> insert_responses,
                                   second |-> "json"], <<>>)
    /\ UNCHANGED <<given, session, upload, exists_ret, waiting>>

\* self.report(self._verbose); return insert_responses, setup_response
setup_report ==
    /\ impl = "setup" /\ call = "setup" /\ pc = "after_wait"
    /\ reqs' = reqs \o <<Req("info", name)>>
                    \o (IF info_type(name) \in ReportTypes
                        THEN <<Req("report", name)>> ELSE <<>>)
    /\ type_cache' = info_type(name)
    /\ Finish("returned", [form |-> "pair", inserts |-> insert_responses,
                            second |-> "json"], <<>>)
    /\ UNCHANGED <<given, name, setup_params, insert_params_set, dbs, upload,
                   exists_ret, waiting>>

\* trainer.report(): self.db_type is read, and the report requested only
\* for the types that have one.
setup_Trainer_report ==
    /\ impl = "setup"
    /\ Setter("report", <<Req("info", name)>>
                        \o (IF info_type(name) \in ReportTypes
                            THEN <<Req("report", name)>> ELSE <<>>))
    /\ type_cache' = info_type(name)
    /\ UNCHANGED <<name, setup_params, insert_params_set, exists_ret,
                   frequency_seconds, overwrite, data, batch_size>>

\* trainer.append(data, frequency_seconds=...)
setup_append_call ==
    /\ impl = "setup"
    /\ Begin("append", "append_begin")
    /\ data' \in {Frame(n) : n \in 0..MaxTrainRows}
    /\ frequency_seconds' \in 0..MaxFreq
    /\ UNCHANGED <<session, overwrite, batch_size>>

\* if self.exists(): raise KeyError
setup_append_exists ==
    /\ impl = "setup" /\ call = "append" /\ pc = "append_begin"
    /\ reqs' = Append(reqs, Req("info", name))
    /\ type_cache' = info_type(name)
    /\ exists_ret' = exists(type_cache')
    /\ IF exists_ret'
       THEN Finish("KeyError", NoValue, <<"does not exist">>)
       ELSE /\ pc' = "setup_prepare"
            /\ UNCHANGED result
    /\ UNCHANGED <<given, name, setup_params, insert_params_set, dbs, todo, b,
                   insert_responses, waiting>>

\* add_data_response = self._append(name=self.name); then wait_setup when
\* frequency_seconds >= 1
setup_append_patch ==
    /\ impl = "setup" /\ call = "append" /\ pc = "setup_insert"
    /\ b >= Len(Head(todo).rows)
    /\ reqs' = Append(reqs, Req("append", name))
    /\ IF frequency_seconds >= 1
       THEN /\ pc' = "begin"
            /\ UNCHANGED result
       ELSE Finish("returned", [form |-> "pair", inserts |-> insert_responses,
                                 second |-> "json"], <<>>)
    /\ UNCHANGED <<given, session, dbs, upload, exists_ret, waiting>>

(* ------------------------ jAI's HTTP bindings ------------------------- *)
\* The methods of jAI that issue one HTTP request and hand back its answer.
Bindings == {"names", "info", "status", "ids", "is_valid", "_insert_json",
             "_setup_database", "_append", "delete_raw_data", "delete_database",
             "_similar_id", "_similar_json"}

\* requests.get / post / put / patch / delete
verb(op, method) ==
    CASE op \in {"names", "info", "status", "ids", "is_valid"} -> "GET"
      [] op \in {"_insert_json", "_setup_database"} -> "POST"
      [] op = "_append" -> "PATCH"
      [] op \in {"delete_raw_data", "delete_database"} -> "DELETE"
      [] op = "_similar_id" -> method
      [] OTHER -> "PUT"

\* (mutant of path: is_valid asks for the collection "a")
path_validation_of_a(op, nm) ==
    CASE op = "names" -> <<"/info?mode=names">>
      [] op = "info" -> <<"/info?mode=complete">>
      [] op = "status" -> <<"/status">>
      [] op = "ids" -> <<"/id/", nm>>
      [] op = "is_valid" -> <<"/validation/", "a">>
      [] op \in {"_insert_json", "_append", "delete_raw_data"} -> <<"/data/", nm>>
      [] op = "_setup_database" -> <<"/setup/", nm>>
      [] op = "delete_database" -> <<"/database/", nm>>
      [] op = "_similar_id" -> <<"/similar/id/", nm>>
      [] OTHER -> <<"/similar/data/", nm>>

\* (mutant of path: delete_database deletes the raw data)
path_delete_data(op, nm) ==
    CASE op = "names" -> <<"/info?mode=names">>
      [] op = "info" -> <<"/info?mode=complete">>
      [] op = "status" -> <<"/status">>
      [] op = "ids" -> <<"/id/", nm>>
      [] op = "is_valid" -> <<"/validation/", nm>>
      [] op \in {"_insert_json", "_append", "delete_raw_data", "delete_database"} -> <<"/data/", nm>>
      [] op = "_setup_database" -> <<"/setup/", nm>>
      [] op = "_similar_id" -> <<"/similar/id/", nm>>
      [] OTHER -> <<"/similar/data/", nm>>

\* the path appended to self.base_api_url
path(op, nm) ==
    CASE op = "names" -> <<"/info?mode=names">>
      [] op = "info" -> <<"/info?mode=complete">>
      [] op = "status" -> <<"/status">>
      [] op = "ids" -> <<"/id/", nm>>
      [] op = "is_valid" -> <<"/validation/", nm>>
      [] op \in {"_insert_json", "_append", "delete_raw_data"} -> <<"/data/", nm>>
      [] op = "_setup_database" -> <<"/setup/", nm>>
      [] op = "delete_database" -> <<"/database/", nm>>
      [] op = "_similar_id" -> <<"/similar/id/", nm>>
      [] OTHER -> <<"/similar/data/", nm>>

\* the status code compared with response.status_code
success(op) ==
    CASE op = "_setup_database" -> 201
      [] op = "_append" -> 202
      [] OTHER -> 200

\* _similar_id: the checks of method and of the type of id_item
similar_id_error(a) ==
    IF a.method \notin {"GET", "PUT"} THEN "ValueError"
    ELSE IF a.id_item \notin {"list", "int"} THEN "TypeError"
    ELSE "none"

\* The route and the collection a request addresses: the last two parts of
\* its url.
Route(req) == req.url[Len(req.url) - 1]
Target(req) == req.url[Len(req.url)]

\* The remote after it answered resp to the request req: an accepted
\* POST /setup/{name} creates the collection, an accepted
\* DELETE /database/{name} removes it.
RemoteAfter(req, resp) ==
    IF req.verb = "POST" /\ Route(req) = "/setup/" /\ resp.code = 201
    THEN [dbs EXCEPT ![Target(req)] = IF @ = "absent" THEN "Text" ELSE @]
    ELSE IF req.verb = "DELETE" /\ Route(req) = "/database/" /\ resp.code = 200
    THEN [dbs EXCEPT ![Target(req)] = "absent"]
    ELSE dbs

\* The parsed body of the answer to req: for GET /validation/{name} whether
\* the remote has the collection.
Body(req) ==
    IF req.verb = "GET" /\ Route(req) = "/validation/"
    THEN (IF Listed(Target(req)) THEN "true" ELSE "false")
    ELSE "body"

\* What the session has done to the name once op was answered resp.
LifecycleAfter(op, nm, resp) ==
    IF op = "_setup_database" /\ resp.code = 201
    THEN [lifecycle EXCEPT ![nm] = "set up"]
    ELSE IF op = "delete_database" /\ resp.code = 200
    THEN [lifecycle EXCEPT ![nm] = "deleted"]
    ELSE IF op = "_append" /\ resp.code = 202 /\ lifecycle[nm] = "set up"
    THEN [lifecycle EXCEPT ![nm] = "appended"]
    ELSE lifecycle

\* jAI(auth_key, url)
jAI_init ==
    /\ impl = "core" /\ call = "__init__" /\ pc = "new"
    /\ base_api_url' = InitBaseUrl(url)
    /\ header' = InitHeader(url, auth_key)
    /\ Finish("returned", [form |-> "session"], <<>>)
    /\ UNCHANGED <<impl, call, frequency_seconds, overwrite, session, dbs, upload,
                   exists_ret, url, auth_key, http, response, remote, lifecycle,
                   arg, reading, codec, results, locals, status, tries, polls, slept, reqs, interrupt, ghost>>

\* The caller invokes one of the bindings for a name.
jAI_call ==
    /\ impl = "core" /\ pc = "idle"
    /\ \E op \in Bindings, nm \in Names :
         /\ call' = op
         /\ name' = nm
         /\ IF op = "_similar_id"
            THEN arg' \in [method : {"GET", "PUT", "POST"}, id_item : {"list", "int", "str"}]
            ELSE arg' = NoArg
    /\ pc' = "binding"
    /\ outcome' = "running"
    /\ UNCHANGED <<impl, frequency_seconds, overwrite, type_cache, setup_params,
                   insert_params_set, dbs, upload, exists_ret, conn, reading, codec, results, http, response,
                   remote, lifecycle, fresh, reqs>>

\* The binding issues its request and the remote answers; _similar_id
\* first checks its arguments.
binding_request ==
    /\ impl = "core" /\ call \in Bindings /\ pc = "binding"
    /\ IF call = "_similar_id" /\ similar_id_error(arg) # "none"
       THEN /\ Finish(similar_id_error(arg), NoValue, <<>>)
            /\ UNCHANGED <<http, response, dbs, lifecycle>>
       ELSE /\ http' = Append(http, HttpReq(verb(call, arg.method), path(call, name)))
            /\ \E resp \in HttpResponses(success(call)) :
                 /\ response' = resp
                 /\ dbs' = RemoteAfter(HttpReq(verb(call, arg.method), path(call, name)), resp)
                 /\ lifecycle' = LifecycleAfter(call, name, resp)
            /\ pc' = "binding_answer"
            /\ UNCHANGED result
    /\ UNCHANGED <<impl, call, frequency_seconds, overwrite, session, upload,
                   exists_ret, conn, reading, codec, results, remote, arg, waiting, reqs>>

\* if response.status_code == <success>: return response.json()
\* else: return self.assert_status_code(response), which prints
\* response.json() and returns the response
binding_return ==
    /\ impl = "core" /\ call \in Bindings /\ pc = "binding_answer"
    /\ IF json_raises(response)
       THEN Finish("JSONDecodeError", NoValue, <<>>)
       ELSE Finish("returned",
                   [form |-> Answer(response.code, success(call)),
                    value |-> Body(http[Len(http)])], <<>>)
    /\ UNCHANGED <<impl, call, frequency_seconds, overwrite, session, dbs, upload,
                   exists_ret, core, waiting, reqs>>

\* jai.setup(name, data, db_type, batch_size=...)
jAI_setup_call ==
    /\ impl = "core" /\ pc = "idle"
    /\ call' = "jAI.setup"
    /\ pc' = "setup_begin"
    /\ outcome' = "running"
    /\ name' \in Names
    /\ data' \in {Frame(0), Frame(MaxTrainRows)}
    /\ batch_size' \in {1, MaxTrainRows}
    /\ UNCHANGED <<impl, frequency_seconds, overwrite, type_cache, setup_params,
                   insert_params_set, dbs, exists_ret, core, fresh, reqs>>

(* ----------------------------- jAI.similar --------------------------- *)
\* The data argument of similar: integer ids in a pd.Series or a pd.Index,
\* or a list.
Ids(kind, n) == [kind |-> kind, tables |-> <<Table("main", n)>>]

\* is_integer_dtype(data): true of an integer Series or Index; a list has
\* no dtype and is not one.
is_integer_dtype(d) == d.kind \in {"Series", "Index"}

\* _batch as the loop leaves it for ids: the list made of a Series slice
\* is replaced, in the else branch of the test for pd.Index, by the slice
\* data[i:i+batch_size], a Series; an Index gives a list.
batch_kind(d) == IF d.kind = "Index" THEN "list" ELSE d.kind

\* What a step of similar or generate_name leaves alone.
around == <<impl, call, frequency_seconds, overwrite, session, dbs, exists_ret,
            conn, reading, codec, remote, lifecycle, waiting, reqs, data,
            batch_size, todo, insert_responses>>

\* jai.similar(name, data, batch_size=...)
jAI_similar_call ==
    /\ impl = "core" /\ pc = "idle"
    /\ call' = "similar"
    /\ pc' = "similar_info"
    /\ outcome' = "running"
    /\ name' \in Names
    /\ data' \in {Ids(kind, n) : kind \in {"Series", "Index", "list"}, n \in 0..MaxTrainRows}
    /\ batch_size' \in {1, MaxTrainRows}
    /\ UNCHANGED <<impl, frequency_seconds, overwrite, type_cache, setup_params,
                   insert_params_set, dbs, exists_ret, core, fresh, reqs>>

\* dtypes = self.info; raise ValueError() when the name is not listed. A
\* response that is not 200 comes back as the response object, which
\* cannot be indexed by 'db_name'.
similar_info ==
    /\ call = "similar" /\ pc = "similar_info"
    /\ http' = Append(http, HttpReq("GET", path("info", name)))
    /\ \E resp \in HttpResponses(200) :
         /\ response' = resp
         /\ IF json_raises(resp) THEN Finish("JSONDecodeError", NoValue, <<>>)
            ELSE IF resp.code # 200 THEN Finish("TypeError", NoValue, <<"response">>)
            ELSE IF ~Listed(name) THEN Finish("ValueError", NoValue, <<>>)
            ELSE pc' = "similar_loop" /\ UNCHANGED result
    /\ UNCHANGED <<around, b, results, arg>>

\* One pass of `for i in trange(0, len(data), batch_size)`: the batch goes
\* to _similar_id (ids) or _similar_json, and res['similarity'] is added to
\* the results.
similar_batch ==
    /\ call = "similar" /\ pc = "similar_loop"
    /\ b < Len(data.tables[1].rows)
    /\ LET is_id == is_integer_dtype(data)
           sent == [method |-> "PUT", id_item |-> batch_kind(data)]
       IN  /\ arg' = IF is_id THEN sent ELSE arg
           /\ IF is_id /\ similar_id_error(sent) # "none"
              THEN /\ Finish(similar_id_error(sent), NoValue, <<>>)
                   /\ UNCHANGED <<http, response, b, results>>
              ELSE /\ http' = Append(http,
                                     HttpReq("PUT", path(IF is_id THEN "_similar_id"
                                                         ELSE "_similar_json", name)))
                   /\ \E resp \in HttpResponses(200) :
                        /\ response' = resp
                        /\ IF json_raises(resp)
                           THEN /\ Finish("JSONDecodeError", NoValue, <<>>)
                                /\ UNCHANGED <<b, results>>
                           ELSE IF resp.code # 200
                           THEN /\ Finish("TypeError", NoValue, <<"response">>)
                                /\ UNCHANGED <<b, results>>
                           ELSE /\ results' = results
                                       \o BatchSlice(data.tables[1].rows, b, batch_size)
                                /\ b' = b + batch_size
                                /\ UNCHANGED <<pc, result>>
    /\ UNCHANGED around

\* return results
similar_return ==
    /\ call = "similar" /\ pc = "similar_loop"
    /\ b >= Len(data.tables[1].rows)
    /\ Finish("returned", [form |-> "list", rows |-> results], <<>>)
    /\ UNCHANGED <<around, b, results, arg, http, response>>

(* -------------------------- jAI.generate_name ------------------------- *)
\* largest length asked of generate_name
MaxLength == 3

\* some of the hexadecimal digits secrets.token_hex draws from
Hex == {"a", "b", "0"}
Affixes == {<<>>, <<"a">>, <<"a", "b">>}

\* (mutant of code_length: the affixes are not taken off the length)
code_length_whole(a) == a.length

\* length -= (len_prefix + len_suffix)
code_length(a) == a.length - (Len(a.prefix) + Len(a.suffix))

\* secrets.token_hex(length)[:length].lower(): any string of that many
\* hexadecimal digits
token_hex(n) == [1..n -> Hex]

\* self.names answered with 200: the names of the remote's collections,
\* as strings of characters
fetched_names == {<<nm>> : nm \in {n \in Names : Listed(n)}}

\* if length <= len_prefix + len_suffix: raise ValueError
generate_name_check ==
    /\ call = "generate_name" /\ pc = "generate_check"
    /\ IF arg.length <= Len(arg.prefix) + Len(arg.suffix)
       THEN Finish("ValueError", NoValue, <<"length">>)
       ELSE pc' = "generate_names" /\ UNCHANGED result
    /\ UNCHANGED <<around, b, results, arg, http, response>>

\* names = self.names, one request; then a code is drawn again while
\* prefix + code + suffix is one of the names. A response that is not 200
\* comes back as the response object, whose content holds no str, so the
\* first name drawn is returned.
generate_name ==
    /\ call = "generate_name" /\ pc = "generate_names"
    /\ http' = Append(http, HttpReq("GET", path("names", name)))
    /\ \E resp \in HttpResponses(200) :
         /\ response' = resp
         /\ LET drawn == {arg.prefix \o code \o arg.suffix : code \in token_hex(code_length(arg))}
                free == IF resp.code = 200 THEN drawn \ fetched_names ELSE drawn
            IN  IF json_raises(resp) THEN Finish("JSONDecodeError", NoValue, <<>>)
                ELSE IF free = {} THEN pc' = "generate_loop" /\ UNCHANGED result
                ELSE \E chars \in free :
                        Finish("returned", [form |-> "name", chars |-> chars], <<>>)
    /\ UNCHANGED <<around, b, results, arg>>

\* jAI(auth_key).generate_name(length, prefix, suffix)
InitName ==
    /\ impl = "core"
    /\ call = "generate_name"
    /\ pc = "generate_check"
    /\ frequency_seconds = 1
    /\ status = NoValue
    /\ current = 0 /\ max_steps = 0 /\ step = 0
    /\ is_init = TRUE /\ sleep_time = 0 /\ stall = 0
    /\ iteration = FALSE /\ max_iterations = 0
    /\ pbar_n = 0 /\ iteration_bar_n = 0
    /\ tries = 0 /\ polls = 0 /\ slept = 0
    /\ reqs = <<>>
    /\ outcome = "running" /\ returned = NoValue /\ excArg = <<>>
    /\ interrupt = NoInterrupt
    /\ failPolled = FALSE /\ failDesc = <<>>
    /\ polledAfterFail = FALSE /\ endPolled = FALSE
    /\ lastPolled = NoStatus
    /\ http = <<>>
    /\ response = NoResponse
    /\ results = <<>>
    /\ arg \in [length : 0..MaxLength, prefix : Affixes, suffix : Affixes]
    /\ name = "a"
    /\ dbs \in [Names -> {"absent", "Text"}]
    /\ type_cache = "None"
    /\ setup_params = "None"
    /\ insert_params_set = FALSE
    /\ overwrite = FALSE
    /\ data = Frame(0) /\ batch_size = 1 /\ todo = <<>> /\ b = 0
    /\ insert_responses = Unbound
    /\ exists_ret = FALSE
    /\ url = NoUrl /\ auth_key = "key1"
    /\ base_api_url = InitBaseUrl(NoUrl)
    /\ header = InitHeader(NoUrl, "key1")
    /\ remote \in {"accepting", "any"}
    /\ lifecycle = [n \in Names |-> "unknown"]
    /\ NoFolder
    /\ InitCodec

NextName ==
    \/ generate_name_check
    \/ generate_name

SpecName == InitName /\ [][NextName]_vars

InitJai ==
    /\ impl = "core"
    /\ call = "__init__"
    /\ pc = "new"
    /\ frequency_seconds = 1
    /\ InitLocals
    /\ name = "a"
    /\ dbs \in [Names -> {"absent", "Text"}]
    /\ type_cache = "None"
    /\ setup_params = "None"
    /\ insert_params_set = FALSE
    /\ overwrite = FALSE
    /\ data = Frame(0) /\ batch_size = 1 /\ todo = <<>> /\ b = 0
    /\ insert_responses = Unbound
    /\ exists_ret = FALSE
    /\ url \in Urls /\ auth_key \in AuthKeys
    /\ base_api_url = <<>>
    /\ header = <<>>
    /\ remote \in {"accepting", "any"}
    /\ lifecycle = [n \in Names |-> "unknown"]
    /\ NoFolder
    /\ InitCodec

(* ----------------------- sessions of a Trainer ------------------------ *)
\* Trainer(name): TaskBase.__init__ assigns the name; setup.Trainer's name
\* setter calls self.exists(), and its constructor assigns set_insert, not
\* insert_params.
Trainer_init ==
    /\ call = "__init__" /\ pc = "new"
    /\ IF impl = "setup"
       THEN /\ reqs' = Append(reqs, Req("info", name))
            /\ type_cache' = info_type(name)
            /\ exists_ret' = exists(type_cache')
       ELSE UNCHANGED <<reqs, type_cache, exists_ret>>
    /\ Finish("returned", [form |-> "session"], <<>>)
    /\ UNCHANGED <<given, name, setup_params, insert_params_set, dbs, todo, b,
                   insert_responses, waiting>>

InitTrainer ==
    /\ impl \in {"task", "setup"}
    /\ call = "__init__"
    /\ pc = "new"
    /\ frequency_seconds = 1
    /\ InitLocals
    /\ name \in Names
    /\ dbs \in [Names -> {"absent"} \cup Types]
    /\ type_cache = "None"
    /\ setup_params = "None"
    /\ insert_params_set = (impl = "task")
    /\ overwrite = FALSE
    /\ data = Frame(0) /\ batch_size = MaxTrainRows /\ todo = <<>> /\ b = 0
    /\ insert_responses = Unbound
    /\ exists_ret = FALSE
    /\ InitConn
    /\ NoFolder
    /\ InitCodec

NextTrainer ==
    \/ Trainer_init
    \/ Discard
    \/ Trainer_set_params
    \/ Trainer_set_insert_params
    \/ Trainer_set_name
    \/ Trainer_fit
    \/ fit_is_valid
    \/ fit_delete_database
    \/ fit_check
    \/ fit_delete_raw_data
    \/ fit_insert
    \/ fit_setup
    \/ fit_report
    \/ Trainer_append
    \/ append_is_valid
    \/ append_delete_raw_data
    \/ append_insert
    \/ append_patch
    \/ append_return
    \/ Trainer_delete_database
    \/ delete_database
    \/ Trainer_report
    \/ setup_set_name
    \/ setup_set_params
    \/ setup_set_insert_params
    \/ setup_call
    \/ setup_exists
    \/ setup_delete_database
    \/ setup_prepare
    \/ setup_insert
    \/ setup_train
    \/ setup_report
    \/ setup_Trainer_report
    \/ setup_append_call
    \/ setup_append_exists
    \/ setup_append_patch
    \/ wait_setup_begin
    \/ task_status
    \/ setup_status_try
    \/ wait_setup_init
    \/ wait_setup_test
    \/ wait_setup_inner
    \/ wait_setup_inner_next
    \/ wait_setup_outer_next
    \/ wait_setup_finish

SpecTrainer == InitTrainer /\ [][NextTrainer]_vars

NextJai ==
    \/ jAI_init
    \/ Discard
    \/ jAI_call
    \/ binding_request
    \/ binding_return
    \/ jAI_similar_call
    \/ similar_info
    \/ similar_batch
    \/ similar_return
    \/ jAI_setup_call
    \/ jAI_setup_begin
    \/ jAI_setup_insert
    \/ jAI_setup_database

SpecJai == InitJai /\ [][NextJai]_vars

(* ------------------------- read_image_folder -------------------------- *)
\* most files of an image folder
MaxFiles == 3

\* the default of the extensions argument
extensions == {".png", ".jpg", ".jpeg"}

\* A file of the folder: its suffix, whether PIL can open, verify, encode
\* and decode it, and its stem as a sequence of characters.
Suffixes == {".png", ".txt"}
Stems == {<<"i">>, <<"i", "1">>}
Files == [suffix : Suffixes, sound : BOOLEAN, stem : Stems]
Folders == UNION {[1..n -> Files] : n \in 0..MaxFiles}

\* re.search(id_pattern, filename.stem) for a pattern whose group 1 is a
\* run of digits: the first digit of the stem, or None (here <<>>).
re_search(stem) ==
    LET at == {k \in 1..Len(stem) : stem[k] \in Digits}
    IN  IF at = {} THEN <<>>
        ELSE <<stem[CHOOSE k \in at : \A j \in at : k <= j]>>

\* A row of encoded_images: the id and the file it was made from, named
\* by its place in the folder.
Row(id, place) == [id |-> id, filename |-> place]

\* What a step of read_image_folder leaves alone.
beside == <<impl, call, frequency_seconds, overwrite, session, dbs, upload,
            exists_ret, conn, http, response, remote, lifecycle, arg, waiting,
            reqs, image_folder, handle_errors, id_pattern, codec, results>>

\* if handle_errors not in ['raise', 'warn', 'ignore']: raise ValueError
read_image_folder_check ==
    /\ call = "read_image_folder" /\ pc = "check"
    /\ IF handle_errors \notin {"raise", "warn", "ignore"}
       THEN Finish("ValueError", NoValue, <<"handle_errors">>)
       ELSE pc' = "loop" /\ UNCHANGED result
    /\ UNCHANGED <<beside, loop_files, seen, encoded_images, corrupted_files,
                   ignored_files>>

\* One pass of `for i, filename in enumerate(tqdm(loop_files))`: the id is
\* searched outside the try block; an exception of opening, verifying,
\* encoding or decoding the image is caught.
read_image_folder_file ==
    /\ call = "read_image_folder" /\ pc = "loop" /\ loop_files # <<>>
    /\ LET filename == Head(loop_files)
           found == re_search(filename.stem)
       IN  /\ seen' = seen + 1
           /\ loop_files' = Tail(loop_files)
           /\ IF filename.suffix \in extensions
              THEN IF id_pattern /\ found = <<>>
                   THEN /\ Finish("AttributeError", NoValue, <<>>)
                        /\ UNCHANGED <<encoded_images, corrupted_files, ignored_files>>
                   ELSE IF ~filename.sound
                   THEN /\ IF handle_errors = "raise"
                           THEN Finish("ValueError", NoValue, <<"corrupted">>)
                           ELSE UNCHANGED <<pc, result>>
                        /\ corrupted_files' = IF handle_errors = "raise" THEN corrupted_files
                                              ELSE Append(corrupted_files, seen + 1)
                        /\ UNCHANGED <<encoded_images, ignored_files>>
                   ELSE /\ encoded_images' =
                             Append(encoded_images,
                                    Row(IF id_pattern THEN int(found[1]) ELSE seen, seen + 1))
                        /\ UNCHANGED <<pc, result, corrupted_files, ignored_files>>
              ELSE /\ IF handle_errors = "raise"
                      THEN Finish("ValueError", NoValue, <<"extension">>)
                      ELSE UNCHANGED <<pc, result>>
                   /\ ignored_files' = IF handle_errors = "raise" THEN ignored_files
                                       ELSE Append(ignored_files, seen + 1)
                   /\ UNCHANGED <<encoded_images, corrupted_files>>
    /\ UNCHANGED beside

\* After the loop: with 'warn' the skipped files are joined with '\n' for
\* printing, and str.join raises TypeError on the Path objects the lists
\* hold; else the dataframe of the rows is returned.
read_image_folder_return ==
    /\ call = "read_image_folder" /\ pc = "loop" /\ loop_files = <<>>
    /\ IF handle_errors = "warn" /\ (ignored_files # <<>> \/ corrupted_files # <<>>)
       THEN Finish("TypeError", NoValue, <<>>)
       ELSE Finish("returned", [form |-> "frame", rows |-> encoded_images], <<>>)
    /\ UNCHANGED <<beside, loop_files, seen, encoded_images, corrupted_files,
                   ignored_files>>

\* read_image_folder(image_folder, handle_errors=..., id_pattern=...)
InitImage ==
    /\ impl = "core"
    /\ call = "read_image_folder"
    /\ pc = "check"
    /\ frequency_seconds = 1
    /\ InitLocals
    /\ InitSession
    /\ InitConn
    /\ InitCodec
    /\ image_folder \in Folders
    /\ loop_files = image_folder
    /\ handle_errors \in {"raise", "warn", "ignore", "skip"}
    /\ id_pattern \in BOOLEAN
    /\ seen = 0
    /\ encoded_images = <<>> /\ corrupted_files = <<>> /\ ignored_files = <<>>

NextImage ==
    \/ read_image_folder_check
    \/ read_image_folder_file
    \/ read_image_folder_return

SpecImage == InitImage /\ [][NextImage]_vars

(* --------------------------- the image codec -------------------------- *)
\* most pixels of an image
MaxPixels == 2

\* An image: its mode, its size (width, height) and the bytes of its
\* pixels, band after band of pixel after pixel.
Modes == {"RGB", "L"}
Bands(mode) == IF mode = "RGB" THEN 3 ELSE 1
ByteVals == {0, 77, 255}
Sizes == {sz \in (1..MaxPixels) \X (1..MaxPixels) : sz[1] * sz[2] <= MaxPixels}
Images == UNION {[mode : {m}, size : {sz},
                  data : [1..(sz[1] * sz[2] * Bands(m)) -> ByteVals]] :
                 m \in Modes, sz \in Sizes}

\* (mutant of save_png: width and height are written in the other order)
save_png_transposed(img) == <<img.size[2], img.size[1], Bands(img.mode)>> \o img.data

\* image.save(img_file, format="PNG"): the bytes of the file, a header
\* with the size and the number of bands followed by the pixel data (PNG
\* compresses the data without loss).
save_png(img) == <<img.size[1], img.size[2], Bands(img.mode)>> \o img.data

\* Image.open(BytesIO(bytes))
open_png(bytes) ==
    [mode |-> IF bytes[3] = 3 THEN "RGB" ELSE "L",
     size |-> <<bytes[1], bytes[2]>>,
     data |-> SubSeq(bytes, 4, Len(bytes))]

\* the padding character '=' of base64, after the 64 digits 0..63
Pad == 64

\* b64encode(bytes).decode("utf-8"): three bytes make four digits of six
\* bits; one or two trailing bytes make two or three digits and padding.
RECURSIVE b64encode(_)
b64encode(bytes) ==
    IF Len(bytes) = 0 THEN <<>>
    ELSE IF Len(bytes) = 1
    THEN <<bytes[1] \div 4, (bytes[1] % 4) * 16, Pad, Pad>>
    ELSE IF Len(bytes) = 2
    THEN <<bytes[1] \div 4, (bytes[1] % 4) * 16 + bytes[2] \div 16,
           (bytes[2] % 16) * 4, Pad>>
    ELSE <<bytes[1] \div 4, (bytes[1] % 4) * 16 + bytes[2] \div 16,
           (bytes[2] % 16) * 4 + bytes[3] \div 64, bytes[3] % 64>>
         \o b64encode(SubSeq(bytes, 4, Len(bytes)))

\* b64decode(encoded_string)
RECURSIVE b64decode(_)
b64decode(chars) ==
    IF Len(chars) < 4 THEN <<>>
    ELSE LET p == chars[1]
             q == chars[2]
             r == chars[3]
             t == chars[4]
         IN  IF r = Pad THEN <<p * 4 + q \div 16>>
             ELSE IF t = Pad THEN <<p * 4 + q \div 16, (q % 16) * 16 + r \div 4>>
             ELSE <<p * 4 + q \div 16, (q % 16) * 16 + r \div 4, (r % 4) * 64 + t>>
                  \o b64decode(SubSeq(chars, 5, Len(chars)))

\* .convert("RGB"): a grey pixel becomes three equal bands
convert_RGB(img) ==
    IF img.mode = "RGB" THEN img
    ELSE [mode |-> "RGB", size |-> img.size,
          data |-> [j \in 1..(3 * Len(img.data)) |-> img.data[(j - 1) \div 3 + 1]]]

\* What a step of the codec leaves alone.
apart == <<impl, call, frequency_seconds, overwrite, session, dbs, upload,
           exists_ret, conn, reading, http, response, remote, lifecycle, arg,
           waiting, reqs, image, results>>

\* encode_image(image)
encode_image ==
    /\ call = "codec" /\ pc = "encode"
    /\ encoded_string' = b64encode(save_png(image))
    /\ pc' = "decode"
    /\ UNCHANGED <<apart, decoded, result>>

\* decode_image(encoded_string)
decode_image ==
    /\ call = "codec" /\ pc = "decode"
    /\ decoded' = convert_RGB(open_png(b64decode(encoded_string)))
    /\ Finish("returned", [form |-> "image"], <<>>)
    /\ UNCHANGED <<apart, encoded_string>>

\* decode_image(encode_image(image)) for an image
InitImageCodec ==
    /\ impl = "core"
    /\ call = "codec"
    /\ pc = "encode"
    /\ frequency_seconds = 1
    /\ InitLocals
    /\ InitSession
    /\ InitConn
    /\ NoFolder
    /\ image \in Images
    /\ encoded_string = <<>>
    /\ decoded = NoImage

NextCodec ==
    \/ encode_image
    \/ decode_image

SpecCodec == InitImageCodec /\ [][NextCodec]_vars

(* ============================== claims ================================ *)

\* Positions of wait_setup's polling: the try block, and the first status
\* request.
PollingAt(i) == InTry(i.at) \/ (i.at = "init" /\ i.sent)

\* C1 (as claimed, for task.Trainer.wait_setup): once a status request has
\* answered Status = "Something went wrong." the call issues no further
\* status request and ends by raising BaseException carrying that record's
\* Description, whichever loop made the request (no interruption assumed).
C1_FailureSentinelRaises ==
    (impl = "task" /\ call = "wait_setup" /\ failPolled /\ interrupt.at = "no") =>
        /\ ~polledAfterFail
        /\ pc = "done" => (outcome = "BaseException" /\ excArg = failDesc)

\* C2 (as claimed): wait_setup returns normally only after a status request
\* has answered Status = "Task ended successfully.", for every
\* frequency_seconds and every status map.
C2_ReturnsOnlyAfterSuccess ==
    (call = "wait_setup" /\ outcome = "returned") => endPolled

C4_InterruptCancelsOnce ==
    (impl # "core" /\ call = "wait_setup") =>
        /\ (PollingAt(interrupt) /\ pc = "done") =>
              (outcome = "KeyboardInterrupt" /\ Count(reqs, "cancel") = 1)
        /\ Count(reqs, "cancel") > 0 => interrupt.at # "no"

\* C5 (as claimed): within a wait_setup call the value of the main progress
\* bar never decreases, the final fill included.
C5_BarNeverDecreases == [][pbar_n' >= pbar_n]_vars

Inserts(s) == SelectSeq(s, LAMBDA r : r.op = "insert")
RECURSIVE Flatten(_)
Flatten(s) == IF s = <<>> THEN <<>> ELSE Head(s).rows \o Flatten(Tail(s))
Ceil(n, d) == (n + d - 1) \div d

\* Positions of the requests of kind op in a log.
At(s, op) == {k \in 1..Len(s) : s[k].op = op}

\* C6: task.Trainer.fit, once is_valid() has answered.  The name exists and
\* overwrite is False: the call has raised KeyError and its only request is
\* the is_valid one.  The name exists and overwrite is True: past the
\* delete step there is one delete-database request, for the session's
\* name, and it precedes every insert request.  The name does not exist:
\* there is no delete-database request.
C6_FitOverwrite ==
    (impl = "task" /\ call = "fit" /\ pc # "fit_begin") =>
        /\ (exists_ret /\ ~overwrite) =>
               /\ pc = "done" /\ outcome = "KeyError"
               /\ \A k \in 1..Len(reqs) :
                     reqs[k].op \notin {"delete_database", "delete_raw_data",
                                        "insert", "setup"}
        /\ (exists_ret /\ overwrite /\ pc # "fit_delete") =>
               /\ Count(reqs, "delete_database") = 1
               /\ \A d \in At(reqs, "delete_database") :
                     /\ reqs[d].name = name
                     /\ \A k \in At(reqs, "insert") : d < k
        /\ ~exists_ret => Count(reqs, "delete_database") = 0

\* fit has returned after overwriting an existing database with an upload
\* of at least one batch
C6_Witness ==
    /\ impl = "task" /\ call = "fit" /\ pc = "done" /\ outcome = "returned"
    /\ exists_ret /\ overwrite
    /\ At(reqs, "insert") # {}

\* C7: in setup.Trainer, exists() answers whether the remote lists the
\* session's name: after the constructor and after the name setter its
\* value is that of the remote; setup(overwrite=False) goes on only for a
\* name that is not listed and raises 'already exists' only for one that
\* is; append goes on only for a listed name and raises 'does not exist'
\* only for one that is not.
C7_ExistsMatchesRemote ==
    impl = "setup" =>
        /\ (pc = "done" /\ call \in {"__init__", "set_name"}) =>
               exists_ret = Listed(name)
        /\ (call = "setup" /\ ~overwrite /\ pc = "setup_prepare") => ~Listed(name)
        /\ (call = "setup" /\ ~overwrite /\ pc = "done"
              /\ outcome = "KeyError" /\ excArg = <<"already exists">>) => Listed(name)
        /\ (call = "append" /\ pc = "setup_prepare") => Listed(name)
        /\ (call = "append" /\ pc = "done"
              /\ outcome = "KeyError" /\ excArg = <<"does not exist">>) => ~Listed(name)

\* The place of a request in append's order; 0 for the reads, which the
\* order does not concern.
Rank(r) ==
    CASE r.op = "delete_raw_data" -> 1
      [] r.op = "insert" -> 2
      [] r.op = "append" -> 3
      [] r.op \in {"status", "delete_status", "cancel"} -> 4
      [] OTHER -> 0

\* C8: task.Trainer.append, once is_valid() has answered.  The name does
\* not exist: the call has raised KeyError and its only request is the
\* is_valid one.  The name exists: delete-raw-data requests come before
\* insert requests, these before the incremental-training request, and
\* this before every status request; there is at most one
\* incremental-training request and, when it is issued, raw data was
\* deleted and the inserts carry all the rows of the data; status is
\* polled only with frequency_seconds >= 1; a call that returns has issued
\* the incremental-training request.
C8_AppendOrder ==
    (impl = "task" /\ call = "append" /\ pc # "append_begin") =>
        /\ ~exists_ret =>
               /\ pc = "done" /\ outcome = "KeyError"
               /\ \A k \in 1..Len(reqs) : Rank(reqs[k]) = 0
        /\ exists_ret =>
               /\ \A j, k \in 1..Len(reqs) :
                     (j < k /\ Rank(reqs[j]) > 0 /\ Rank(reqs[k]) > 0)
                        => Rank(reqs[j]) <= Rank(reqs[k])
               /\ Count(reqs, "append") <= 1
               /\ Count(reqs, "append") = 1 =>
                     /\ Count(reqs, "delete_raw_data") >= 1
                     /\ Flatten(Inserts(reqs)) = data.tables[1].rows
               /\ Count(reqs, "status") > 0 =>
                     (frequency_seconds >= 1 /\ Count(reqs, "append") = 1)
               /\ (pc = "done" /\ outcome = "returned") => Count(reqs, "append") = 1

\* append on an existing name has returned after two insert requests and
\* at least one status poll
C8_Witness ==
    /\ impl = "task" /\ call = "append" /\ pc = "done" /\ outcome = "returned"
    /\ exists_ret
    /\ Count(reqs, "insert") >= 2
    /\ Count(reqs, "status") >= 1


\* C9: in jAI.setup with batch size >= 1 the k-th insert request (k from 0)
\* carries exactly rows [k*b, min((k+1)*b, n)) of the data in their order,
\* every insert precedes the start-training request, and a call that returns
\* has issued ceil(n/b) insert requests whose rows, put end to end, are the
\* data: no row is dropped or sent twice.
C9_BatchesPartitionData ==
    (call = "jAI.setup" /\ batch_size >= 1) =>
        LET rows == data.tables[1].rows
            n == Len(rows)
            ins == Inserts(reqs)
        IN  /\ \A k \in 1..Len(ins) :
                 /\ ins[k].name = name
                 /\ ins[k].rows =
                      [j \in 1..(Min(k * batch_size, n) - (k - 1) * batch_size)
                          |-> rows[(k - 1) * batch_size + j]]
                 /\ reqs[k] = ins[k]
            /\ outcome = "returned" =>
                 /\ Len(ins) = Ceil(n, batch_size)
                 /\ Flatten(ins) = rows
                 /\ Len(reqs) = Len(ins) + 1

C9_Witness ==
    /\ call = "jAI.setup" /\ outcome = "returned"
    /\ batch_size = 2 /\ Len(data.tables[1].rows) = 3
    /\ Len(Inserts(reqs)) = 2
    /\ Len(Inserts(reqs)[2].rows) = 1

\* C10 (as claimed): in jAI.setup, once the insert request of a chunk gets a
\* non-success answer no later chunk is sent and no start-training request
\* is issued.
C10_FailedChunkAborts ==
    call = "jAI.setup" =>
        \A k \in 1..Len(insert_responses) :
            insert_responses[k] = "response" =>
                /\ Len(Inserts(reqs)) = k
                /\ Count(reqs, "setup") = 0

\* The calls of jAI's HTTP bindings that have finished.
BindingDone == impl = "core" /\ call \in Bindings /\ pc = "done"

\* C11: a call of an HTTP binding of jAI whose single request was answered
\* with a status code other than the binding's success code returns the raw
\* response object and does not raise.
C11_RawResponseWithoutRaising ==
    (BindingDone /\ Len(http) = 1 /\ response.code # success(call))
        => (outcome = "returned" /\ returned.form = "response")

\* C12: once constructed, the session's header has exactly one key, 'Auth'
\* when no url was given and 'company-key' otherwise, holding the key given
\* at construction; header and base URL stay what the constructor made of
\* its arguments, and every request sent carries that header and goes to
\* that base URL.
C12_HeaderFixed ==
    (impl = "core" /\ pc # "new") =>
        /\ DOMAIN header = (IF url.given THEN {"company-key"} ELSE {"Auth"})
        /\ \A k \in DOMAIN header : header[k] = auth_key
        /\ base_api_url = InitBaseUrl(url)
        /\ \A i \in 1..Len(http) :
             /\ http[i].headers = header
             /\ SubSeq(http[i].url, 1, Len(base_api_url)) = base_api_url

\* a session built with a url ending in '/' has sent a request
C12_Witness ==
    /\ BindingDone /\ Len(http) = 1
    /\ url.given /\ endswith(url.chars, "/")
    /\ DOMAIN http[1].headers = {"company-key"}

\* is_valid(name) has returned the parsed body of its answer
IsValidReturned(v) ==
    /\ BindingDone /\ call = "is_valid"
    /\ outcome = "returned" /\ returned.form = "json" /\ returned.value = v

\* C13: with a remote that accepts every request, is_valid(name) returns
\* true once a setup of the name has completed, and keeps doing so after
\* appends to it, as long as delete_database(name) has not been called.
C13_ValidAfterSetup ==
    (BindingDone /\ call = "is_valid" /\ remote = "accepting"
        /\ lifecycle[name] \in {"set up", "appended"})
      => IsValidReturned("true")

\* is_valid answered true for a name that was set up and then appended to
C13_Witness ==
    remote = "accepting" /\ lifecycle[name] = "appended" /\ IsValidReturned("true")

\* C14: with a remote that accepts every request, is_valid(name) returns
\* false once delete_database(name) has returned, until the name is set up
\* again.
C14_InvalidAfterDelete ==
    (BindingDone /\ call = "is_valid" /\ remote = "accepting"
        /\ lifecycle[name] = "deleted")
      => IsValidReturned("false")

\* is_valid answered false for a deleted name that the remote had at first
C14_Witness ==
    remote = "accepting" /\ lifecycle[name] = "deleted" /\ IsValidReturned("false")

\* the status requests in a log
StatusRequests(log) == Count(log, "status")

\* C15: a call of setup.Trainer.status(max_tries, patience) ends after at
\* most max_tries + 1 status requests: a request that fails after fewer than
\* max_tries failures is followed by a sleep of patience // max_tries and
\* another request, and the request after max_tries failures ends the call,
\* with its answer or with its exception.
C15_StatusTerminates ==
    [][(impl = "setup" /\ call = "wait_setup" /\ pc \in Sites
            /\ StatusRequests(reqs') > StatusRequests(reqs))
        => /\ StatusRequests(reqs') = StatusRequests(reqs) + 1
           /\ tries <= max_tries
           /\ (pc' = pc) => /\ tries < max_tries
                            /\ tries' = tries + 1
                            /\ slept' = patience \div max_tries
           /\ (tries = max_tries) =>
                 /\ tries' = 0
                 /\ \/ pc' = After(pc)
                    \/ pc' = "done" /\ outcome' \in {"RequestError", "KeyboardInterrupt", "KeyError"}
       ]_vars

\* the first call of status failed max_tries + 1 times and raised
C15_Witness ==
    /\ impl = "setup" /\ call = "wait_setup" /\ pc = "done"
    /\ outcome = "RequestError"
    /\ polls = 1
    /\ StatusRequests(reqs) = max_tries + 1
    /\ slept = patience \div max_tries

\* C16: a validation error of fit (setup parameters missing, data of an
\* unsupported type) is raised before fit has issued any request.
C16_ValidationBeforeRequests ==
    (impl = "task" /\ call = "fit" /\ pc = "done" /\ outcome = "ValueError")
        => reqs = <<>>

\* C17: a call of task.Trainer.fit with frequency_seconds < 1 that has sent
\* its start-training request returns the pair (insert_responses,
\* setup_response) right after it: no status, delete-status or report
\* request follows.
C17_FitReturnsWithoutWaiting ==
    (impl = "task" /\ call = "fit" /\ pc = "done" /\ frequency_seconds < 1
        /\ Count(reqs, "setup") > 0)
      => /\ outcome = "returned" /\ returned.form = "pair"
         /\ Last(reqs).op = "setup"
         /\ \A k \in 1..Len(reqs) : reqs[k].op \notin {"status", "delete_status", "report"}

\* C18: report() requests the report only when the session's database
\* exists with a type that has one (self-supervised, supervised,
\* recommendation); for any other type and for a database that does not
\* exist it returns without a report request.
C18_ReportOnlyForTrainedTypes ==
    (call = "report" /\ pc = "done" /\ Count(reqs, "report") > 0)
        => (Listed(name) /\ dbs[name] \in ReportTypes)

\* The files of the folder that read_image_folder can make a row of.
Bad(f) == f.suffix \notin extensions \/ ~f.sound
NoId(f) == id_pattern /\ re_search(f.stem) = <<>>
Remaining == {k \in 1..Len(image_folder) :
                 ~Bad(image_folder[k]) /\ ~NoId(image_folder[k])}

\* C19: with handle_errors 'ignore' or 'warn', read_image_folder returns a
\* dataframe with exactly one row for each file that has an accepted
\* extension, can be read and (with an id_pattern) has an id in its name;
\* no file makes it raise.
C19_SkipsBadFiles ==
    (call = "read_image_folder" /\ pc = "done" /\ handle_errors \in {"ignore", "warn"})
      => /\ outcome = "returned"
         /\ Len(returned.rows) = Cardinality(Remaining)
         /\ \A k \in Remaining : \E r \in 1..Len(returned.rows) :
                returned.rows[r].filename = k

\* the first file, in iteration order, with a non-accepted extension or
\* that cannot be read
FirstBad == CHOOSE k \in 1..Len(image_folder) :
               /\ Bad(image_folder[k])
               /\ \A j \in 1..(k - 1) : ~Bad(image_folder[j])

\* C20: with handle_errors 'raise', read_image_folder raises ValueError at
\* the first file with a non-accepted extension or that cannot be read,
\* having taken no later file, and returns normally when there is no such
\* file.
C20_RaisesAtFirstBadFile ==
    (call = "read_image_folder" /\ pc = "done" /\ handle_errors = "raise")
      => IF \E k \in 1..Len(image_folder) : Bad(image_folder[k])
         THEN outcome = "ValueError" /\ seen = FirstBad
         ELSE outcome = "returned"

C22_FitRequestOrder ==
    (impl = "task" /\ call = "fit") =>
        /\ Count(reqs, "setup") <= 1
        /\ (pc = "done" /\ outcome = "returned") => Count(reqs, "setup") = 1
        /\ \A k \in 1..Len(reqs) :
             /\ reqs[k].op = "setup" =>
                   \A j \in (k + 1)..Len(reqs) : reqs[j].op # "insert"
             /\ reqs[k].op = "insert" =>
                   \E j \in 1..(k - 1) : reqs[j] = Req("delete_raw_data", reqs[k].name)
             /\ reqs[k].op = "status" =>
                   \E j \in 1..(k - 1) : reqs[j].op = "setup"

\* fit of a mapping of two tables has uploaded both, started the training,
\* polled and returned
C22_Witness ==
    /\ impl = "task" /\ call = "fit" /\ pc = "done" /\ outcome = "returned"
    /\ Len(data.tables) = 2
    /\ Count(reqs, "insert") >= 2
    /\ Count(reqs, "delete_raw_data") = 2
    /\ Count(reqs, "status") > 0

\* C23: in task.Trainer.wait_setup the sleep before a status poll of the
\* inner loop is frequency_seconds * (1 + k), k being the number of inner
\* passes, the current one included, since the iteration bar last moved
\* (0 when this pass moved it); the sleep before a poll of the outer loop is
\* frequency_seconds.
C23_SleepGrowsWhileStalled ==
    (impl = "task" /\ call = "wait_setup") =>
        /\ pc = "inner" => /\ slept = frequency_seconds * (1 + stall)
                           /\ slept = sleep_time
        /\ pc = "outer" => slept = frequency_seconds

\* the bar stood still on two inner passes in a row
C23_Witness ==
    /\ impl = "task" /\ call = "wait_setup" /\ pc = "inner"
    /\ frequency_seconds = 2 /\ stall = 2 /\ slept = 6

\* C24: what status() hands to wait_setup is the status record of the
\* session's own name, never the map from names to records.
C24_StatusReturnsOwnRecord ==
    (impl # "core" /\ call = "wait_setup" /\ pc \in {"init_ret", "inner_ret", "outer_ret"})
        => status.form = "record"

\* C25: with a remote that accepts every request and lists the name,
\* similar() given integer ids in a pd.Series sends one request to the
\* similarity-by-id route for each batch of at most batch_size ids, each
\* with a plain list of ids, and returns the results of the batches in
\* order, one for each id.
C25_SimilarSeriesOfIds ==
    (call = "similar" /\ pc = "done" /\ data.kind = "Series"
        /\ remote = "accepting" /\ Listed(name))
      => /\ outcome = "returned"
         /\ returned.rows = data.tables[1].rows
         /\ Len(http) = 1 + Ceil(Len(data.tables[1].rows), batch_size)
         /\ \A k \in 2..Len(http) : Route(http[k]) = "/similar/id/"
         /\ arg.id_item \in {"", "list"}

\* C26: a call of task.Trainer.fit that ends with a validation error has
\* issued no delete-database, delete-raw-data, insert or start-training
\* request.
C26_ValidationErrorLeavesRemote ==
    (impl = "task" /\ call = "fit" /\ pc = "done" /\ outcome = "ValueError")
        => \A k \in 1..Len(reqs) :
              reqs[k].op \notin {"delete_database", "delete_raw_data", "insert", "setup"}

\* C27: whenever db_type has just been read (by the name setter's
\* exists() or by report()) for a name the remote does not list, its value
\* is None.
C27_DbTypeNoneWhenAbsent ==
    (impl = "setup" /\ call \in {"set_name", "report"} /\ pc = "done"
        /\ ~Listed(name))
      => type_cache = "None"

\* C28: whenever wait_setup of a Trainer returns after polling, the main
\* progress bar shows the TotalSteps of the first status record.
C28_BarFullOnReturn ==
    (impl # "core" /\ call = "wait_setup" /\ pc = "done" /\ outcome = "returned"
        /\ polls > 0)
      => pbar_n = max_steps

HasIteration(d) ==
    \E k \in 1..Len(d) :
        /\ d[k] = IterTok /\ k + 3 = Len(d)
        /\ d[k + 1] \in Digits /\ d[k + 2] = SepTok /\ d[k + 3] \in Digits

\* C30: at both call sites of wait_setup, get_numbers does not raise and
\* returns a 3-tuple for the status record polled: (True, i, n) when the
\* Description holds "Iteration: i / n", (False, 0, 0) otherwise.
C30_GetNumbersTotal ==
    (/\ impl # "core" /\ status.form = "record"
     /\ \/ pc = "inner_body"
        \/ pc = "outer_test" /\ status.rec.Status \notin {end_message, error_message})
      => LET t == IF impl = "setup" THEN get_numbers_setup(status.rec)
                  ELSE get_numbers(status.rec)
         IN  /\ t.exc = "none"
             /\ t.arity = 3
             /\ t.a = HasIteration(status.rec.Description)
             /\ ~t.a => (t.b = 0 /\ t.c = 0)

====
